---- MODULE Spec2Model ----
(***************************************************************************)
(* Decision core of the WhatsApp assistant: the proactive tick            *)
(* (apps/worker/app/proactive.py), the Supervisor                          *)
(* (packages/llm/supervisor.py) and the conversation state machine         *)
(* (packages/agent_core/core.py).                                          *)
(*                                                                         *)
(* Time is counted in minutes since local midnight of day 0.  Every        *)
(* datetime of the code is timezone-aware and astimezone() keeps the       *)
(* instant, so one integer stands for a datetime in any zone; .date() and  *)
(* .time() are taken in TIMEZONE (DayOf, TimeOf).                          *)
(***************************************************************************)
EXTENDS Integers, Sequences, FiniteSets, TLC

VARIABLES
    now,            \* the wall clock read by datetime.now(TIMEZONE)
    config,         \* the system_config table (at most one row)
    rules,          \* the autonomy_rules table, in insertion (= created_at) order
    events,         \* the proactive_events table, in insertion order
    send_attempts,  \* WahaClient.send_text calls made by ticks, per dedupe_key
    habit_nudges,   \* the habit_nudges table, in insertion order
    what_works,     \* CoachingProfile.what_works["strategies"]
    env_chat,       \* USER_CHAT_ID / PROACTIVE_CHAT_ID of the worker process
    facts,          \* the memory_facts table for subject "user", by key
    tick_out,       \* what the last run_proactive_tick returned, skipped and saw raise
    d_in, d_out,    \* arguments and result of a direct call of decide
    sup_in, sup_out,\* arguments and result of a direct call of Supervisor.evaluate
    autonomy_out,   \* what each reader of the autonomy rules answered last
    digests,        \* the digests table, in insertion order
    digest_sends,   \* digest messages the transport delivered, per local day
    digest_out,     \* the last run_daily_digest: what it found, did and returned
    state,          \* the conversation_state table, by chat_id
    requests,       \* the assistant_requests table, by chat_id and key
    has_token,      \* whether a Google OAuth token is stored
    calendar,       \* the events of the Google calendar, as [start, end) intervals
    duration_prompts, \* outbound messages_raw rows like '%Cuanto dura%', by chat_id
    create_calls,   \* CalendarTool.create_event calls made so far
    message_sends,  \* send_message_and_store calls made so far
    inbound_count,  \* the number of inbound messages stored
    handlers,       \* webhook requests being handled concurrently, by worker thread
    scheduler,      \* the worker's BlockingScheduler: clock, tick job, executor
    planner_call,   \* what the LLM endpoint answers and generate_structured returns
    habit_logs,     \* the habit_logs table, in insertion order
    habit_call,     \* arguments and result of a direct call into packages/habits
    threads,        \* the threads table, in insertion order
    last            \* the last message handled: chat, text, reply, state before

vars == <<now, config, rules, events, send_attempts, habit_nudges, what_works,
          env_chat, facts, tick_out, d_in, d_out, sup_in, sup_out, autonomy_out,
          digests, digest_sends, digest_out, handlers, scheduler, planner_call,
          habit_logs, habit_call, threads,
          state, requests, has_token, calendar, duration_prompts, create_calls,
          message_sends, inbound_count, last>>

(* Variables by subsystem *)
clock_vars == <<now>>
tick_vars == <<config, rules, events, send_attempts, habit_nudges, what_works,
               env_chat, facts, tick_out>>
digest_vars == <<digests, digest_sends, digest_out>>
runtime_vars == <<handlers, scheduler, planner_call>>
coach_vars == <<habit_call>>
probe_vars == <<d_in, d_out, sup_in, sup_out, autonomy_out, digest_vars, runtime_vars,
                coach_vars>>
chat_vars == <<state, requests, has_token, calendar, duration_prompts, create_calls,
               message_sends, inbound_count, last, habit_logs, threads>>

----------------------------------------------------------------------------
(* Bounds of the model *)

NumInstants == 4        \* how many of the Instants the clock may visit
MaxCands == 2           \* candidates the generators return in one tick
MaxDailyLimit == 2      \* largest daily_proactive_limit of a configured row

(* Program constants *)

MinutesPerDay == 1440
UrgentThreshold == 80
MaybeThreshold == 50
CooldownMinutes == 240
DefaultDailyLimit == 5
QuietStart == 0
QuietEnd == 570
StrongStart == 660
StrongEnd == 1140

NoTime == -1            \* None in a nullable datetime column
NoChat == "none"        \* None as a chat id

(* The instants at which something happens, in increasing order: 08:00,    *)
(* 12:00, 16:00 and 17:00 of day 0, then 12:00 and 17:00 of day 1.         *)
Instants == <<480, 720, 960, 1020, 2160, 2460>>

Min(a, b) == IF a < b THEN a ELSE b

Times == {Instants[i] : i \in 1..Min(NumInstants, Len(Instants))}

DayOf(t) == t \div MinutesPerDay
TimeOf(t) == t % MinutesPerDay

----------------------------------------------------------------------------
(* SystemConfig *)

NoConfig == [present |-> FALSE]

DEFAULT_CONFIG ==
    [present |-> TRUE,
     quiet_hours_start |-> QuietStart, quiet_hours_end |-> QuietEnd,
     strong_window_start |-> StrongStart, strong_window_end |-> StrongEnd,
     daily_proactive_limit |-> DefaultDailyLimit,
     maybe_cooldown_minutes |-> CooldownMinutes,
     urgent_threshold |-> UrgentThreshold,
     maybe_threshold |-> MaybeThreshold]

(* Rows an operator may have stored: the defaults with a smaller daily cap *)
ConfiguredRows ==
    {[DEFAULT_CONFIG EXCEPT !.daily_proactive_limit = n] : n \in 1..MaxDailyLimit}

_get_or_create_config(cfg) == IF cfg.present THEN cfg ELSE DEFAULT_CONFIG

----------------------------------------------------------------------------
(* Autonomy rules.  created_at is the insertion instant (server default   *)
(* now()), so ORDER BY created_at DESC is the reverse of insertion order.  *)

Rule(scope, mode, until_at) == [scope |-> scope, mode |-> mode, until_at |-> until_at]

RECURSIVE EffectiveRule(_, _, _, _)
EffectiveRule(rs, scope, t, i) ==
    IF i = 0 THEN [scope |-> scope, mode |-> "none", until_at |-> NoTime]
    ELSE IF rs[i].scope # scope THEN EffectiveRule(rs, scope, t, i - 1)
    ELSE IF rs[i].until_at # NoTime /\ rs[i].until_at < t
         THEN EffectiveRule(rs, scope, t, i - 1)
    ELSE rs[i]

_get_autonomy_mode_normal(rs, t) == "normal"

_get_autonomy_mode(rs, t) ==
    LET r == EffectiveRule(rs, "global", t, Len(rs))
    IN IF r.mode = "none" THEN "normal" ELSE r.mode

_habits_autonomy_off_never(rs, t) == FALSE

(* the newest habits rule that has not expired, if its mode is not "on" *)
_habits_autonomy_off(rs, t) ==
    LET r == EffectiveRule(rs, "habits", t, Len(rs))
    IN IF r.mode = "none" THEN FALSE ELSE r.mode # "on"

----------------------------------------------------------------------------
(* decide *)

_in_quiet_hours(local_time, cfg) ==
    cfg.quiet_hours_start <= local_time /\ local_time < cfg.quiet_hours_end

_in_strong_window(local_time, cfg) ==
    cfg.strong_window_start <= local_time /\ local_time < cfg.strong_window_end

Decision(decision, reason, score) ==
    [decision |-> decision, reason |-> reason, score |-> score]

(* decide with the quiet-hours test applied to every score *)
decide_quiet_any_score(candidate, now_local, cfg, autonomy_mode, sent_today, in_cooldown) ==
    LET score == candidate.score
        local_time == TimeOf(now_local)
    IN IF _in_quiet_hours(local_time, cfg)
       THEN Decision("digested", "quiet_hours", score)
       ELSE IF score >= cfg.urgent_threshold /\ sent_today < cfg.daily_proactive_limit
       THEN Decision("sent", "urgent", score)
       ELSE Decision("digested", "rate_limit", score)

decide(candidate, now_local, cfg, autonomy_mode, sent_today, in_cooldown) ==
    LET score == candidate.score
        local_time == TimeOf(now_local)
        tentative ==
            IF score >= cfg.urgent_threshold
            THEN Decision("sent", "urgent", score)
            ELSE IF ~_in_strong_window(local_time, cfg)
            THEN Decision("digested", "outside_strong_window", score)
            ELSE IF in_cooldown
            THEN Decision("digested", "cooldown", score)
            ELSE Decision("sent", "maybe", score)
    IN IF _in_quiet_hours(local_time, cfg) /\ score < cfg.urgent_threshold
       THEN Decision("digested", "quiet_hours", score)
       ELSE IF autonomy_mode \in {"focus", "urgencies_only"} /\ score < cfg.urgent_threshold
       THEN Decision("digested", "autonomy_mode", score)
       ELSE IF score < cfg.maybe_threshold
       THEN Decision("digested", "below_threshold", score)
       ELSE IF tentative.decision = "sent" /\ sent_today >= cfg.daily_proactive_limit
       THEN Decision("digested", "rate_limit", score)
       ELSE tentative

----------------------------------------------------------------------------
(* Candidates.  The generators read the calendar, the tasks, the threads   *)
(* and the habits; what they return is drawn from Universe(now).  A        *)
(* dedupe key f"{kind}:{id}:{tag}" (habits: with today's date) is the      *)
(* record of its parts.                                                    *)

Key(kind, id, tag, day) == [kind |-> kind, id |-> id, tag |-> tag, day |-> day]

Candidate(trigger_type, entity_id, score, dedupe_key, strategy) ==
    [trigger_type |-> trigger_type, entity_id |-> entity_id, score |-> score,
     dedupe_key |-> dedupe_key, strategy |-> strategy]

Strategies == {"micro_action", "frictionless", "reframe", "contract", "humor"}

Universe(t) ==
    { Candidate("calendar_upcoming", "evt1", 90, Key("calendar", "evt1", "tminus10", -1), "none"),
      Candidate("calendar_upcoming", "evt2", 70, Key("calendar", "evt2", "tminus60", -1), "none"),
      Candidate("habit_window", "1", 65, Key("habit", "1", "habit_window", DayOf(t)), "reframe") }

CandidateLists(t) ==
    UNION {[1..n -> Universe(t)] : n \in 0..MaxCands}

(* candidates.sort(key=score, reverse=True): a stable sort *)
RECURSIVE InsertByScore(_, _)
InsertByScore(sorted, c) ==
    IF sorted = <<>> THEN <<c>>
    ELSE IF Head(sorted).score >= c.score
         THEN <<Head(sorted)>> \o InsertByScore(Tail(sorted), c)
         ELSE <<c>> \o sorted

RECURSIVE SortByScoreDesc(_)
SortByScoreDesc(cands) ==
    IF cands = <<>> THEN <<>>
    ELSE InsertByScore(SortByScoreDesc(SubSeq(cands, 1, Len(cands) - 1)), cands[Len(cands)])

----------------------------------------------------------------------------
(* Queries on proactive_events *)

Rows(tbl) == {tbl[i] : i \in 1..Len(tbl)}

_has_dedupe_sent_only(evs, dedupe_key) ==
    \E i \in 1..Len(evs) : evs[i].dedupe_key = dedupe_key /\ evs[i].decision = "sent"

_has_dedupe_never(evs, dedupe_key) == FALSE

_has_dedupe(evs, dedupe_key) ==
    \E i \in 1..Len(evs) : evs[i].dedupe_key = dedupe_key

_count_sent_today_zero(evs, now_local) == 0

_count_sent_today(evs, now_local) ==
    LET day_start == DayOf(now_local) * MinutesPerDay
        day_end == day_start + MinutesPerDay
    IN Cardinality({i \in 1..Len(evs) :
          /\ evs[i].sent_at # NoTime
          /\ evs[i].sent_at >= day_start
          /\ evs[i].sent_at < day_end})

_sent_recently_strict(evs, trigger_type, now_local, cooldown_minutes) ==
    LET since == now_local - cooldown_minutes
    IN \E i \in 1..Len(evs) :
          /\ evs[i].trigger_type = trigger_type
          /\ evs[i].decision = "sent"
          /\ evs[i].sent_at # NoTime
          /\ evs[i].sent_at > since

_sent_recently(evs, trigger_type, now_local, cooldown_minutes) ==
    LET since == now_local - cooldown_minutes
    IN \E i \in 1..Len(evs) :
          /\ evs[i].trigger_type = trigger_type
          /\ evs[i].decision = "sent"
          /\ evs[i].sent_at # NoTime
          /\ evs[i].sent_at >= since

(* _record_event writing sent_at = created_at on every row *)
_record_event_always_stamped(evs, candidate, decision, reason, sent_at, created_at) ==
    IF \E i \in 1..Len(evs) : evs[i].dedupe_key = candidate.dedupe_key
    THEN evs
    ELSE Append(evs,
            [trigger_type |-> candidate.trigger_type,
             dedupe_key |-> candidate.dedupe_key,
             entity_id |-> candidate.entity_id,
             score |-> candidate.score,
             decision |-> decision,
             reason |-> reason,
             sent_at |-> created_at,
             created_at |-> created_at])

(* session.add + commit; the unique index on dedupe_key raises            *)
(* IntegrityError, which is rolled back.                                   *)
_record_event(evs, candidate, decision, reason, sent_at, created_at) ==
    IF \E i \in 1..Len(evs) : evs[i].dedupe_key = candidate.dedupe_key
    THEN evs
    ELSE Append(evs,
            [trigger_type |-> candidate.trigger_type,
             dedupe_key |-> candidate.dedupe_key,
             entity_id |-> candidate.entity_id,
             score |-> candidate.score,
             decision |-> decision,
             reason |-> reason,
             sent_at |-> sent_at,
             created_at |-> created_at])

IsHabit(trigger_type) ==
    trigger_type \in {"habit_window", "habit_streak_risk", "habit_weekly_risk"}

_update_strategy_stats(ww, strategy, sent_inc, done_inc) ==
    [ww EXCEPT ![strategy] = [sent |-> @.sent + sent_inc,
                              done_after |-> @.done_after + done_inc]]

(* acc is the database as the loop sees it: events, habit_nudges,         *)
(* what_works, plus the loop's sent_today and sent_count.                  *)
_record_habit_nudge(acc, candidate, decision, t) ==
    IF ~IsHabit(candidate.trigger_type) THEN acc
    ELSE LET strategy == IF candidate.strategy = "none" THEN "micro_action"
                         ELSE candidate.strategy
         IN [acc EXCEPT
               !.habit_nudges = Append(@, [habit_id |-> candidate.entity_id, ts |-> t,
                                           strategy |-> strategy, decision |-> decision]),
               !.what_works = IF decision = "sent"
                              THEN _update_strategy_stats(@, strategy, 1, 0)
                              ELSE @]

----------------------------------------------------------------------------
(* run_proactive_tick *)

(* os.getenv first, then the user_chat_id fact (confidence >= 70) *)
_resolve_chat_id(env, fs) ==
    IF env # NoChat THEN env
    ELSE IF fs["user_chat_id"].confidence >= 70 THEN fs["user_chat_id"].value
    ELSE NoChat

(* The body of "for candidate in candidates", from candidate i on.  ok is  *)
(* the set of positions at which send_text would not raise.                *)
RECURSIVE TickLoop(_, _, _, _, _)
TickLoop(cands, i, acc, ctx, ok) ==
    IF i > Len(cands) THEN acc
    ELSE
      LET candidate == cands[i] IN
      IF _has_dedupe(acc.events, candidate.dedupe_key)
      THEN TickLoop(cands, i + 1, [acc EXCEPT !.skipped = @ \cup {candidate.dedupe_key}], ctx, ok)
      ELSE
        LET in_cooldown == _sent_recently(acc.events, candidate.trigger_type, ctx.t,
                                          ctx.cfg.maybe_cooldown_minutes)
            first == decide(candidate, ctx.t, ctx.cfg, ctx.mode, acc.sent_today, in_cooldown)
            decision ==
                IF IsHabit(candidate.trigger_type) /\ _habits_autonomy_off(ctx.rules, ctx.t)
                THEN Decision("suppressed", "habits_off", first.score)
                ELSE first
            next ==
                IF decision.decision = "sent"
                THEN IF ctx.chat_id = NoChat
                     THEN [acc EXCEPT !.events = _record_event(@, candidate, "suppressed",
                                                               "no_contact", NoTime, ctx.t)]
                     ELSE IF i \notin ok
                     THEN [acc EXCEPT
                             !.send_attempts[candidate.dedupe_key] = @ + 1,
                             !.raised = @ \cup {candidate.dedupe_key},
                             !.events = _record_event(@, candidate, "suppressed",
                                                      "send_failed", NoTime, ctx.t)]
                     ELSE LET a == [acc EXCEPT
                                      !.send_attempts[candidate.dedupe_key] = @ + 1,
                                      !.events = _record_event(@, candidate, "sent",
                                                               decision.reason, ctx.t, ctx.t)]
                              b == _record_habit_nudge(a, candidate, decision.decision, ctx.t)
                          IN [b EXCEPT !.sent_today = @ + 1, !.sent_count = @ + 1]
                ELSE LET a == [acc EXCEPT !.events = _record_event(@, candidate,
                                      decision.decision, decision.reason, NoTime, ctx.t)]
                     IN _record_habit_nudge(a, candidate, decision.decision, ctx.t)
        IN TickLoop(cands, i + 1, next, ctx, ok)

(* A habit of priority 5 whose streak is at risk: 50 + 5 * 5 + 10 *)
UrgentHabit(t) ==
    Candidate("habit_streak_risk", "2", 85, Key("habit", "2", "habit_streak_risk", DayOf(t)),
              "micro_action")

AllKeys == {c.dedupe_key : c \in UNION {Universe(t) \cup {UrgentHabit(t)} : t \in Times}}

run_proactive_tick(raw, ok) ==
    LET cfg == _get_or_create_config(config)
        ctx == [t |-> now, cfg |-> cfg,
                mode |-> _get_autonomy_mode(rules, now),
                rules |-> rules,
                chat_id |-> _resolve_chat_id(env_chat, facts)]
        acc0 == [events |-> events, habit_nudges |-> habit_nudges,
                 what_works |-> what_works, send_attempts |-> send_attempts,
                 sent_today |-> _count_sent_today(events, now),
                 sent_count |-> 0, skipped |-> {}, raised |-> {}]
        acc == TickLoop(SortByScoreDesc(raw), 1, acc0, ctx, ok)
    IN /\ config' = cfg
       /\ events' = acc.events
       /\ habit_nudges' = acc.habit_nudges
       /\ what_works' = acc.what_works
       /\ send_attempts' = acc.send_attempts
       /\ tick_out' = [sent_count |-> acc.sent_count, skipped |-> acc.skipped,
                       raised |-> acc.raised,
                       candidates |-> {raw[n].dedupe_key : n \in 1..Len(raw)}]

Tick ==
    /\ \E raw \in CandidateLists(now) : \E ok \in SUBSET (1..Len(raw)) :
          run_proactive_tick(raw, ok)
    /\ UNCHANGED <<now, rules, env_chat, facts>>
    /\ UNCHANGED probe_vars
    /\ UNCHANGED chat_vars

(* Time passes: the clock moves to the next instant *)
Advance ==
    /\ \E i \in 1..(NumInstants - 1) : Instants[i] = now /\ now' = Instants[i + 1]
    /\ UNCHANGED tick_vars
    /\ UNCHANGED probe_vars
    /\ UNCHANGED chat_vars

NoFact == [value |-> "none", confidence |-> 0]
FactKeys == {"user_chat_id", "default_barbershop", "preferred_event_duration_minutes",
             "diet_store_address"}

NoProbe == [set |-> FALSE]

Days == {0, 1}

DigestVarsInit ==
    /\ digests = <<>>
    /\ digest_sends = [d \in Days |-> 0]
    /\ digest_out = NoProbe

NoTick == [sent_count |-> 0, skipped |-> {}, raised |-> {}, candidates |-> {}]

(* No webhook request is being handled, no scheduler is running *)
RuntimeVarsInit == handlers = NoProbe /\ scheduler = NoProbe /\ planner_call = NoProbe

(* Nothing of packages/habits was called directly *)
CoachVarsInit == habit_call = NoProbe

(* A worker that has not run yet, over an empty database *)
TickVarsInit ==
    /\ rules = <<>>
    /\ events = <<>>
    /\ send_attempts = [k \in AllKeys |-> 0]
    /\ habit_nudges = <<>>
    /\ what_works = [s \in Strategies |-> [sent |-> 0, done_after |-> 0]]
    /\ facts = [k \in FactKeys |-> NoFact]
    /\ tick_out = NoTick

(* Chats, conversation state and assistant requests.  An optional value   *)
(* (None or a value) is a set of at most one element.                      *)
Chats == {"user@c.us", "ana@c.us"}

ConversationState(pending_action, pending_question, last_intent) ==
    [pending_action_json |-> pending_action,
     pending_question_json |-> pending_question,
     last_intent |-> last_intent]

(* _get_or_create_state: a new row has every column null *)
NewState == ConversationState({}, {}, "none")

ReqKeys == {"calendar_auth", "default_barbershop", "preferred_event_duration_minutes",
            "user_chat_id"}

NoRequest == [status |-> "none", priority |-> 0, asked_at |-> NoTime,
              answered_at |-> NoTime, dismissed_until |-> {}]

NoLast == [chat |-> NoChat]

(* No conversation yet, no request, an empty calendar *)
ChatVarsInit ==
    /\ state = [c \in Chats |-> NewState]
    /\ requests = [c \in Chats |-> [k \in ReqKeys |-> NoRequest]]
    /\ has_token = TRUE
    /\ calendar = {}
    /\ duration_prompts = [c \in Chats |-> 0]
    /\ create_calls = 0
    /\ message_sends = 0
    /\ inbound_count = 0
    /\ habit_logs = <<>>
    /\ threads = <<>>
    /\ last = NoLast

ProbeVarsInit ==
    /\ d_in = NoProbe /\ d_out = NoProbe
    /\ sup_in = NoProbe /\ sup_out = NoProbe
    /\ autonomy_out = NoProbe
    /\ DigestVarsInit
    /\ CoachVarsInit
    /\ RuntimeVarsInit

InitTick ==
    /\ now = Instants[1]
    /\ config \in ConfiguredRows
    /\ env_chat \in {NoChat, "user@c.us"}
    /\ TickVarsInit
    /\ ProbeVarsInit
    /\ ChatVarsInit

NextTick == Tick \/ Advance

SpecTick == InitTick /\ [][NextTick]_vars

(* Reading the log: the rows of one dedupe_key, the 'sent' rows before    *)
(* position i whose sent_at falls on the day, resp. within the cooldown,   *)
(* of row i.                                                               *)
RowsOfKey(k) == {i \in 1..Len(events) : events[i].dedupe_key = k}

SentBeforeOnDay(i) ==
    {j \in 1..(i - 1) :
        /\ events[j].decision = "sent"
        /\ DayOf(events[j].sent_at) = DayOf(events[i].created_at)}

SentBeforeInCooldown(i) ==
    {j \in 1..(i - 1) :
        /\ events[j].decision = "sent"
        /\ events[j].trigger_type = events[i].trigger_type
        /\ events[j].sent_at >= events[i].created_at - config.maybe_cooldown_minutes}

InMaybeBand(score) == score >= config.maybe_threshold /\ score < config.urgent_threshold

C4_OneRowPerKey ==
    \A k \in AllKeys : Cardinality(RowsOfKey(k)) <= 1 /\ send_attempts[k] <= 1

C4_RecordedKeyUntouched ==
    /\ Len(events') >= Len(events)
    /\ SubSeq(events', 1, Len(events)) = events
    /\ \A k \in AllKeys : RowsOfKey(k) # {} => send_attempts'[k] = send_attempts[k]

(* C4: the log holds one row per dedupe_key, and a tick leaves every       *)
(* recorded key as it was: no new decision, no new row, no send.           *)
C4_DedupeIdempotent == [](C4_OneRowPerKey) /\ [][C4_RecordedKeyUntouched]_vars

(* A tick met a candidate whose key was already recorded and sent, and     *)
(* skipped it: still one row and one send for that key.                    *)
C4_Witness ==
    \E k \in tick_out.skipped :
        /\ Cardinality(RowsOfKey(k)) = 1
        /\ \E i \in RowsOfKey(k) : events[i].decision = "sent" /\ events[i].created_at < now
        /\ send_attempts[k] = 1

(* C5: on every local day the rows with decision 'sent' never outnumber    *)
(* daily_proactive_limit; a row recorded once the cap is reached is not a  *)
(* send, and is ('digested', 'rate_limit') if it would have been sent:     *)
(* urgent, or in the maybe band inside the strong window, outside quiet    *)
(* hours and outside the cooldown.  Sends of the same tick are earlier     *)
(* rows of the log, so they count.                                         *)
C5_DailyCap ==
    /\ \A t \in Times :
          Cardinality({i \in 1..Len(events) :
                          events[i].decision = "sent"
                          /\ DayOf(events[i].sent_at) = DayOf(t)})
             <= config.daily_proactive_limit
    /\ \A i \in 1..Len(events) :
          Cardinality(SentBeforeOnDay(i)) >= config.daily_proactive_limit =>
             /\ events[i].decision # "sent"
             /\ (/\ env_chat # NoChat
                 /\ \/ events[i].score >= config.urgent_threshold
                    \/ /\ InMaybeBand(events[i].score)
                       /\ ~_in_quiet_hours(TimeOf(events[i].created_at), config)
                       /\ _in_strong_window(TimeOf(events[i].created_at), config)
                       /\ SentBeforeInCooldown(i) = {})
                => (events[i].decision = "digested" /\ events[i].reason = "rate_limit")

(* The last tick sent a message that filled the day's cap and digested     *)
(* its next, urgent, candidate with reason rate_limit.                     *)
C5_Witness ==
    /\ tick_out.sent_count >= 1
    /\ Len(events) >= 2
    /\ LET i == Len(events)
       IN /\ events[i].created_at = now
          /\ events[i - 1].created_at = now
          /\ events[i - 1].decision = "sent"
          /\ Cardinality(SentBeforeOnDay(i)) = config.daily_proactive_limit
          /\ events[i].score >= config.maybe_threshold
          /\ events[i].decision = "digested"
          /\ events[i].reason = "rate_limit"

C9_SentOnlyOutsideCooldown ==
    \A i \in 1..Len(events) :
        (InMaybeBand(events[i].score) /\ events[i].decision = "sent")
            => SentBeforeInCooldown(i) = {}

C9_MaybeSendsApart ==
    \A i \in 1..Len(events) : \A j \in 1..(i - 1) :
        (/\ events[i].decision = "sent" /\ events[j].decision = "sent"
         /\ events[i].trigger_type = events[j].trigger_type
         /\ events[i].reason = "maybe")
        => events[i].sent_at - events[j].sent_at > config.maybe_cooldown_minutes

(* C9 as stated: a maybe-band candidate is sent only if no send of its     *)
(* trigger type lies within the cooldown, sends of the same tick           *)
(* included; otherwise it is digested with reason 'cooldown'; two sends    *)
(* of one type, the later a 'maybe' send, are more than the cooldown       *)
(* apart.                                                                  *)
C9_CooldownElseDigested ==
    /\ C9_SentOnlyOutsideCooldown
    /\ \A i \in 1..Len(events) :
          (InMaybeBand(events[i].score) /\ SentBeforeInCooldown(i) # {})
             => (events[i].decision = "digested" /\ events[i].reason = "cooldown")
    /\ C9_MaybeSendsApart

(* C9, amended: as stated, except that a maybe-band candidate inside the   *)
(* cooldown is recorded ('digested', 'cooldown') when the checks decide    *)
(* makes before the cooldown let it through (outside quiet hours, mode     *)
(* normal, inside the strong window) and it is not a habit nudge under     *)
(* habits-off; in every case it is not sent.                               *)
C9_CooldownGate ==
    /\ C9_SentOnlyOutsideCooldown
    /\ \A i \in 1..Len(events) :
          (InMaybeBand(events[i].score) /\ SentBeforeInCooldown(i) # {})
             => /\ events[i].decision # "sent"
                /\ (/\ ~_in_quiet_hours(TimeOf(events[i].created_at), config)
                    /\ _in_strong_window(TimeOf(events[i].created_at), config)
                    /\ _get_autonomy_mode(rules, events[i].created_at) = "normal"
                    /\ ~(IsHabit(events[i].trigger_type)
                         /\ _habits_autonomy_off(rules, events[i].created_at)))
                   => (events[i].decision = "digested" /\ events[i].reason = "cooldown")
    /\ C9_MaybeSendsApart

(* A calendar reminder was sent, and a maybe-band calendar candidate       *)
(* evaluated exactly maybe_cooldown_minutes later was digested with        *)
(* reason cooldown.                                                        *)
C9_Witness ==
    \E i \in 1..Len(events) : \E j \in 1..(i - 1) :
        /\ events[j].decision = "sent"
        /\ events[j].trigger_type = events[i].trigger_type
        /\ events[i].created_at - events[j].sent_at = config.maybe_cooldown_minutes
        /\ InMaybeBand(events[i].score)
        /\ events[i].decision = "digested"
        /\ events[i].reason = "cooldown"

SendFailedRow(row) ==
    row.decision = "suppressed" /\ row.reason = "send_failed" /\ row.sent_at = NoTime

C16_FailedRows ==
    /\ \A i \in 1..Len(events) :
          /\ events[i].reason \in {"send_failed", "no_contact"}
                => (events[i].decision = "suppressed" /\ events[i].sent_at = NoTime)
          /\ events[i].reason = "send_failed" => send_attempts[events[i].dedupe_key] = 1
          /\ events[i].reason = "no_contact" => send_attempts[events[i].dedupe_key] = 0
          /\ events[i].reason = "rate_limit"
                => Cardinality(SentBeforeOnDay(i)) >= config.daily_proactive_limit
    /\ \A k \in AllKeys :
          send_attempts[k] = 1 =>
             /\ Cardinality(RowsOfKey(k)) = 1
             /\ \A i \in RowsOfKey(k) :
                   events[i].decision = "sent" \/ SendFailedRow(events[i])
    /\ \A k \in tick_out.raised :
          \E i \in RowsOfKey(k) : SendFailedRow(events[i])
    /\ \A k \in tick_out.candidates : RowsOfKey(k) # {}

C16_TickCountsRealSends ==
    tick_out' # tick_out =>
       LET fresh == (Len(events) + 1)..Len(events')
       IN /\ tick_out'.sent_count
                = Cardinality({i \in fresh : events'[i].decision = "sent"})
          /\ _count_sent_today(events', now)
                = _count_sent_today(events, now) + tick_out'.sent_count
          /\ \A k \in AllKeys :
                send_attempts'[k] = send_attempts[k] + 1 =>
                   \E i \in fresh :
                      /\ events'[i].dedupe_key = k
                      /\ IF k \in tick_out'.raised
                         THEN SendFailedRow(events'[i])
                         ELSE events'[i].decision = "sent" /\ events'[i].sent_at = now

(* C16: a candidate decided 'sent' whose send raises, or for which no     *)
(* chat is resolved, leaves one row ('suppressed', send_failed resp.      *)
(* no_contact) with sent_at null; it counts neither in the returned       *)
(* count nor toward the daily cap (a rate_limit row has the cap's worth   *)
(* of real sends before it), and every other candidate of the tick still  *)
(* gets its row.                                                          *)
C16_SendFailureRecorded == [](C16_FailedRows) /\ [][C16_TickCountsRealSends]_vars

(* A tick whose first send raised recorded ('suppressed', send_failed),   *)
(* went on, sent its next candidate and returned 1.                       *)
C16_Witness ==
    /\ tick_out.sent_count = 1
    /\ \E i \in 1..Len(events) : \E j \in (i + 1)..Len(events) :
          /\ SendFailedRow(events[i])
          /\ events[i].dedupe_key \in tick_out.raised
          /\ events[i].created_at = now
          /\ send_attempts[events[i].dedupe_key] = 1
          /\ events[j].created_at = now
          /\ events[j].decision = "sent"

(* A row that is no send: the send raised, or the candidate was digested  *)
(* or suppressed.                                                          *)
NotSentRow(row) == row.decision \in {"suppressed", "digested"}

C35_AttemptedOnce ==
    \A k \in AllKeys :
        /\ send_attempts[k] <= 1
        /\ (\E i \in RowsOfKey(k) : NotSentRow(events[i]) /\ ~SendFailedRow(events[i]))
              => send_attempts[k] = 0

C35_NeverSentLater ==
    \A i \in 1..Len(events) :
        NotSentRow(events[i]) =>
            /\ send_attempts'[events[i].dedupe_key] = send_attempts[events[i].dedupe_key]
            /\ \A j \in 1..Len(events') :
                  events'[j].dedupe_key = events[i].dedupe_key
                      => j = i /\ events'[j] = events[i]

(* C35: over any sequence of ticks the transport's send is attempted at    *)
(* most once per dedupe_key, never for a key that was digested or          *)
(* suppressed without a send, and a later tick neither sends nor records   *)
(* again a key whose row is a failed send, digested or suppressed.         *)
C35_SentAtMostOnce == [](C35_AttemptedOnce) /\ [][C35_NeverSentLater]_vars

(* A later tick met again a candidate whose send had raised and one that   *)
(* had been digested, and skipped both: one attempt resp. none.            *)
C35_Witness ==
    \E k \in tick_out.skipped : \E d \in tick_out.skipped :
        /\ \E i \in RowsOfKey(k) : SendFailedRow(events[i]) /\ events[i].created_at < now
        /\ send_attempts[k] = 1
        /\ \E i \in RowsOfKey(d) : events[i].decision = "digested" /\ events[i].created_at < now
        /\ send_attempts[d] = 0

----------------------------------------------------------------------------
(* decide called directly, as the unit tests call it, on arguments drawn   *)
(* from small sets.                                                        *)

Scores == {45, 70, 80, 90}
LocalTimes == {360, 480, 720, 1200, 1380}
Modes == {"normal", "focus", "urgencies_only"}

(* Windows a SystemConfig row may hold: the defaults, a night window that  *)
(* wraps midnight (22:00-07:00), a strong window that runs to 23:30.       *)
QuietWindows == {<<QuietStart, QuietEnd>>, <<1320, 420>>}
StrongWindows == {<<StrongStart, StrongEnd>>, <<StrongStart, 1410>>}

DecideConfigs ==
    {[DEFAULT_CONFIG EXCEPT !.quiet_hours_start = q[1], !.quiet_hours_end = q[2],
                            !.strong_window_start = w[1], !.strong_window_end = w[2],
                            !.daily_proactive_limit = n] :
        q \in QuietWindows, w \in StrongWindows, n \in 1..MaxDailyLimit}

DecideInputs ==
    [set : {TRUE},
     candidate : {Candidate("task_due_today", "1", sc, Key("task", "1", "due_today", -1), "none") :
                    sc \in Scores},
     now_local : LocalTimes,
     cfg : DecideConfigs,
     autonomy_mode : Modes,
     sent_today : 0..MaxDailyLimit,
     in_cooldown : BOOLEAN]

CallDecide ==
    /\ d_in.set /\ ~d_out.set
    /\ d_out' = [set |-> TRUE,
                 result |-> decide(d_in.candidate, d_in.now_local, d_in.cfg,
                                   d_in.autonomy_mode, d_in.sent_today, d_in.in_cooldown)]
    /\ UNCHANGED <<now, d_in, sup_in, sup_out, autonomy_out>>
    /\ UNCHANGED digest_vars
    /\ UNCHANGED runtime_vars
    /\ UNCHANGED coach_vars
    /\ UNCHANGED tick_vars
    /\ UNCHANGED chat_vars

InitDecide ==
    /\ now = Instants[1]
    /\ config = NoConfig
    /\ env_chat = NoChat
    /\ TickVarsInit
    /\ d_in \in DecideInputs
    /\ d_out = NoProbe
    /\ sup_in = NoProbe /\ sup_out = NoProbe
    /\ autonomy_out = NoProbe
    /\ DigestVarsInit
    /\ CoachVarsInit
    /\ RuntimeVarsInit
    /\ ChatVarsInit

NextDecide == CallDecide

SpecDecide == InitDecide /\ [][NextDecide]_vars

(* A window in the everyday sense: [start, end) when start <= end, and the  *)
(* night window that wraps midnight when start > end.                      *)
InsideWindow(start, end, t) ==
    IF start <= end THEN start <= t /\ t < end
    ELSE t >= start \/ t < end

(* C6: a candidate whose score is at least urgent_threshold is decided     *)
(* ('sent', 'urgent') whenever sent_today is below daily_proactive_limit,  *)
(* whatever the time of day, the autonomy mode and the cooldown flag.      *)
C6_UrgentSentUnderCap ==
    (/\ d_out.set
     /\ d_in.candidate.score >= d_in.cfg.urgent_threshold
     /\ d_in.sent_today < d_in.cfg.daily_proactive_limit)
    => (d_out.result.decision = "sent" /\ d_out.result.reason = "urgent")

(* Score 90 at 08:00, inside quiet hours and outside the strong window,    *)
(* in focus mode and in cooldown, has been sent as urgent.                 *)
C6_Witness ==
    /\ d_out.set
    /\ d_in.candidate.score = 90
    /\ TimeOf(d_in.now_local) = 480
    /\ d_in.cfg.quiet_hours_start <= 480 /\ 480 < d_in.cfg.quiet_hours_end
    /\ ~(d_in.cfg.strong_window_start <= 480 /\ 480 < d_in.cfg.strong_window_end)
    /\ d_in.autonomy_mode = "focus"
    /\ d_in.in_cooldown
    /\ d_in.sent_today < d_in.cfg.daily_proactive_limit
    /\ d_out.result = Decision("sent", "urgent", 90)

(* C7: whenever the local time is inside the configured quiet-hours        *)
(* window, for any configured start and end, and the score is below        *)
(* urgent_threshold, decide returns ('digested', 'quiet_hours').           *)
C7_QuietHoursDigest ==
    (/\ d_out.set
     /\ InsideWindow(d_in.cfg.quiet_hours_start, d_in.cfg.quiet_hours_end,
                     TimeOf(d_in.now_local))
     /\ d_in.candidate.score < d_in.cfg.urgent_threshold)
    => (d_out.result.decision = "digested" /\ d_out.result.reason = "quiet_hours")

----------------------------------------------------------------------------
(* Supervisor (packages/llm/supervisor.py) and the tool registry.  A tool  *)
(* input dict is the set of its fields that hold a non-empty value.        *)

get_tool_scope(tool_name) ==
    CASE tool_name \in {"calendar.create_event", "calendar.list_events", "calendar.is_free"}
            -> "calendar_create"
      [] tool_name \in {"message.reply_draft", "message.send"} -> "message_reply"
      [] OTHER -> "none"

RequiredFields(tool_name) ==
    CASE tool_name = "calendar.create_event" -> {"title", "start", "end"}
      [] tool_name = "calendar.list_events" -> {"time_min", "time_max"}
      [] tool_name = "calendar.is_free" -> {"start", "end"}
      [] tool_name = "message.reply_draft" -> {"incoming_text"}
      [] tool_name = "message.send" -> {"chat_id", "text"}
      [] OTHER -> {}

validate_tool_input(tool_name, tool_input) ==
    {field \in RequiredFields(tool_name) : field \notin tool_input}

(* str.lower on the strings the model uses *)
Lower(str) ==
    CASE str = "Address" -> "address"
      [] str = "ADDRESS" -> "address"
      [] str = "Phone" -> "phone"
      [] OTHER -> str

_missing_evidence_case_sensitive(evidence_needed, evidence_keys) ==
    {i \in 1..Len(evidence_needed) : evidence_needed[i] \notin evidence_keys}

_missing_evidence(evidence_needed, evidence_keys) ==
    {i \in 1..Len(evidence_needed) : Lower(evidence_needed[i]) \notin evidence_keys}

(* scope_data of a snapshot: mode "absent" is a scope the snapshot lacks;  *)
(* iso is "none" (no until_at), "bad" (fromisoformat raises) or "ok".      *)
ScopeData(mode, iso, at) == [mode |-> mode, iso |-> iso, at |-> at]

_autonomy_enabled_ignores_expiry(snapshot, scope, t) == snapshot[scope].mode = "on"

_autonomy_enabled(snapshot, scope, t) ==
    LET scope_data == snapshot[scope]
        mode == IF scope_data.mode = "absent" THEN "off" ELSE scope_data.mode
    IN IF mode # "on" THEN FALSE
       ELSE IF scope_data.iso = "none" THEN TRUE
       ELSE IF scope_data.iso = "bad" THEN FALSE
       ELSE scope_data.at > t

NoAction == [tool |-> "none"]

SupervisorDecision(reply, action, requires_confirmation, reason) ==
    [reply |-> reply, action |-> action,
     requires_confirmation |-> requires_confirmation, reason |-> reason]

OrElse(str, default) == IF str = "" THEN default ELSE str

(* evaluate without its risk_level == "high" branch *)
evaluate_no_high_branch(output, autonomy_snapshot, evidence_keys, t) ==
    IF output.questions # <<>> \/ output.actions = <<>>
    THEN SupervisorDecision("Entendido.", NoAction, FALSE, "no_action")
    ELSE LET action == output.actions[1] IN
         IF validate_tool_input(action.tool, action.input) # {}
            \/ _missing_evidence(output.evidence_needed, evidence_keys) # {}
         THEN SupervisorDecision("Necesito mas detalles.", NoAction, FALSE, "missing_input")
         ELSE IF action.requires_confirmation
         THEN SupervisorDecision("Necesito confirmacion.", action, TRUE, "requires_confirmation")
         ELSE IF action.risk_level = "medium"
                 /\ ~_autonomy_enabled(autonomy_snapshot, get_tool_scope(action.tool), t)
         THEN SupervisorDecision("Necesito confirmacion.", action, TRUE, "autonomy_off")
         ELSE SupervisorDecision("Listo.", action, FALSE, "approved")

evaluate(output, autonomy_snapshot, evidence_keys, t) ==
    IF output.questions # <<>>
    THEN SupervisorDecision(output.questions[1], NoAction, FALSE, "planner_question")
    ELSE IF output.actions = <<>>
    THEN SupervisorDecision(OrElse(output.reply, "Entendido."), NoAction, FALSE, "no_action")
    ELSE
      LET action == output.actions[1]
          tool_scope == get_tool_scope(action.tool)
      IN IF tool_scope = "none"
         THEN SupervisorDecision("No puedo ejecutar esa accion.", NoAction, FALSE,
                                 "tool_not_allowed")
         ELSE IF validate_tool_input(action.tool, action.input) # {}
         THEN SupervisorDecision("Necesito mas detalles.", NoAction, FALSE, "missing_input")
         ELSE IF _missing_evidence(output.evidence_needed, evidence_keys) # {}
         THEN SupervisorDecision("Necesito confirmar ese dato.", NoAction, FALSE,
                                 "missing_evidence")
         ELSE IF action.risk_level = "high"
         THEN SupervisorDecision(OrElse(output.reply, "Necesito confirmacion."), action, TRUE,
                                 "high_risk")
         ELSE IF action.requires_confirmation
         THEN SupervisorDecision(OrElse(output.reply, "Necesito confirmacion."), action, TRUE,
                                 "requires_confirmation")
         ELSE IF action.risk_level = "medium" /\ ~_autonomy_enabled(autonomy_snapshot, tool_scope, t)
         THEN SupervisorDecision(OrElse(output.reply, "Necesito confirmacion."), action, TRUE,
                                 "autonomy_off")
         ELSE SupervisorDecision(OrElse(output.reply, "Listo."), action, FALSE, "approved")

(* Plans that pass the PlannerOutput validators: at most one question, a   *)
(* registered tool in each action.                                         *)
PlannedActions ==
    [tool : {"calendar.create_event"},
     input : {{"title", "start", "end"}, {"title", "start"}},
     risk_level : {"low", "medium", "high"},
     requires_confirmation : BOOLEAN]
    \cup
    [tool : {"message.send"},
     input : {{"chat_id", "text"}, {"chat_id"}},
     risk_level : {"low", "medium", "high"},
     requires_confirmation : BOOLEAN]

SecondAction ==
    [tool |-> "calendar.list_events", input |-> {"time_min", "time_max"},
     risk_level |-> "low", requires_confirmation |-> FALSE]

PlannerOutputs ==
    [reply : {"", "Dale"},
     questions : {<<>>, <<"Para cuando?">>},
     actions : {<<>>} \cup {<<a>> : a \in PlannedActions}
                      \cup {<<a, SecondAction>> : a \in PlannedActions},
     evidence_needed : {<<>>, <<"Address">>}]

ToolScopes == {"calendar_create", "message_reply"}

ScopeDatas ==
    {ScopeData("absent", "none", NoTime), ScopeData("off", "none", NoTime),
     ScopeData("on", "none", NoTime), ScopeData("on", "bad", NoTime),
     ScopeData("on", "ok", Instants[1] - 1), ScopeData("on", "ok", Instants[1]),
     ScopeData("on", "ok", Instants[1] + 1)}

(* evidence_keys is what the caller gathered, in the caller's letter case; *)
(* allow_auto_send is what ContactPolicy.allow_auto_send answers for the   *)
(* destination chat of a message.send (relations/policy.py 15-40).         *)
SupervisorInputs ==
    [set : {TRUE},
     output : PlannerOutputs,
     autonomy_snapshot : [ToolScopes -> ScopeDatas],
     evidence_keys : {{}, {"address"}, {"ADDRESS"}},
     allow_auto_send : BOOLEAN]

(* Supervisor.__init__: self.evidence_keys = {key.lower() for key in ...} *)
Supervisor_evidence_keys(evidence_keys) == {Lower(key) : key \in evidence_keys}

CallEvaluate ==
    /\ sup_in.set /\ ~sup_out.set
    /\ sup_out' = [set |-> TRUE,
                   decision |-> evaluate(sup_in.output, sup_in.autonomy_snapshot,
                                         Supervisor_evidence_keys(sup_in.evidence_keys),
                                         now)]
    /\ UNCHANGED <<now, d_in, d_out, sup_in, autonomy_out>>
    /\ UNCHANGED digest_vars
    /\ UNCHANGED runtime_vars
    /\ UNCHANGED coach_vars
    /\ UNCHANGED tick_vars
    /\ UNCHANGED chat_vars

InitSupervisor ==
    /\ now = Instants[1]
    /\ config = NoConfig
    /\ env_chat = NoChat
    /\ TickVarsInit
    /\ d_in = NoProbe /\ d_out = NoProbe
    /\ sup_in \in SupervisorInputs
    /\ sup_out = NoProbe
    /\ autonomy_out = NoProbe
    /\ DigestVarsInit
    /\ CoachVarsInit
    /\ RuntimeVarsInit
    /\ ChatVarsInit

NextSupervisor == CallEvaluate

SpecSupervisor == InitSupervisor /\ [][NextSupervisor]_vars

FirstActionHigh ==
    /\ sup_out.set
    /\ sup_in.output.actions # <<>>
    /\ sup_in.output.actions[1].risk_level = "high"

(* The plan reaches the risk gate: no question, every required input and   *)
(* every piece of needed evidence present.                                 *)
ReachesRiskGate ==
    /\ sup_in.output.questions = <<>>
    /\ validate_tool_input(sup_in.output.actions[1].tool, sup_in.output.actions[1].input) = {}
    /\ _missing_evidence(sup_in.output.evidence_needed,
                         Supervisor_evidence_keys(sup_in.evidence_keys)) = {}

(* C3 as stated: a plan whose first action has risk_level high always      *)
(* yields requires_confirmation = true with reason high_risk, for every    *)
(* autonomy snapshot.                                                      *)
C3_HighAlwaysConfirmation ==
    FirstActionHigh =>
        (sup_out.decision.requires_confirmation /\ sup_out.decision.reason = "high_risk")

(* C3, amended: a high first action that reaches the risk gate yields      *)
(* requires_confirmation = true with reason high_risk and carries the      *)
(* action; one stopped earlier (question, missing input, missing           *)
(* evidence) returns no action at all; so a high-risk action is never      *)
(* returned approved, whatever the autonomy snapshot.                      *)
C3_HighNeverApproved ==
    FirstActionHigh =>
        /\ ReachesRiskGate =>
              /\ sup_out.decision.requires_confirmation
              /\ sup_out.decision.reason = "high_risk"
              /\ sup_out.decision.action = sup_in.output.actions[1]
        /\ ~ReachesRiskGate =>
              /\ sup_out.decision.action = NoAction
              /\ ~sup_out.decision.requires_confirmation
        /\ sup_out.decision.reason # "approved"

(* A high-risk calendar.create_event with complete input, evaluated under  *)
(* a snapshot whose calendar_create scope is on and unexpired, came back   *)
(* for confirmation.                                                       *)
C3_Witness ==
    /\ FirstActionHigh
    /\ ReachesRiskGate
    /\ sup_in.output.actions[1].tool = "calendar.create_event"
    /\ ~sup_in.output.actions[1].requires_confirmation
    /\ _autonomy_enabled(sup_in.autonomy_snapshot, "calendar_create", now)
    /\ sup_in.autonomy_snapshot["calendar_create"].iso = "ok"
    /\ sup_out.decision.reason = "high_risk"
    /\ sup_out.decision.requires_confirmation

FirstAction == sup_in.output.actions[1]

ApprovedDirectly ==
    /\ sup_out.decision.action = FirstAction
    /\ ~sup_out.decision.requires_confirmation

(* C11 as stated: a message.send whose destination fails the contact-      *)
(* policy auto-send check is never approved for direct execution, even     *)
(* with the message_reply scope on and a plan that asks no confirmation.   *)
C11_SendNeedsPolicy ==
    (/\ sup_out.set
     /\ sup_in.output.actions # <<>>
     /\ FirstAction.tool = "message.send"
     /\ ~sup_in.allow_auto_send)
    => ~ApprovedDirectly

(* The plan is one of C12: no question, a first action of medium risk with *)
(* every required input and every piece of evidence, not flagged.          *)
MediumPlan ==
    /\ sup_out.set
    /\ sup_in.output.actions # <<>>
    /\ ReachesRiskGate
    /\ FirstAction.risk_level = "medium"
    /\ ~FirstAction.requires_confirmation

ScopeEntry == sup_in.autonomy_snapshot[get_tool_scope(FirstAction.tool)]

ScopeOnAndUnexpired ==
    /\ ScopeEntry.mode = "on"
    /\ \/ ScopeEntry.iso = "none"
       \/ ScopeEntry.iso = "ok" /\ ScopeEntry.at > now

(* C12: such a medium-risk plan is approved for direct execution exactly   *)
(* when the snapshot entry of the tool's scope has mode on and an until_at *)
(* that is absent or in the future; otherwise the decision asks for        *)
(* confirmation with reason autonomy_off.                                  *)
C12_MediumNeedsAutonomy ==
    MediumPlan =>
        IF ScopeOnAndUnexpired
        THEN ApprovedDirectly /\ sup_out.decision.reason = "approved"
        ELSE /\ sup_out.decision.requires_confirmation
             /\ sup_out.decision.reason = "autonomy_off"
             /\ sup_out.decision.action = FirstAction

(* A medium-risk plan whose scope is on with an until_at that has passed   *)
(* came back for confirmation.                                             *)
C12_Witness ==
    /\ MediumPlan
    /\ ScopeEntry.mode = "on"
    /\ ScopeEntry.iso = "ok"
    /\ ScopeEntry.at < now
    /\ sup_out.decision.reason = "autonomy_off"

(* an item of evidence_needed is absent from the gathered keys, compared   *)
(* without regard to letter case                                           *)
EvidenceMissing ==
    /\ sup_out.set
    /\ \E i \in 1..Len(sup_in.output.evidence_needed) :
          \A key \in sup_in.evidence_keys :
              Lower(key) # Lower(sup_in.output.evidence_needed[i])

NoActionReturned ==
    /\ sup_out.decision.action = NoAction
    /\ ~sup_out.decision.requires_confirmation

(* C13 as stated: with an item of evidence missing the decision carries no *)
(* action, asks no confirmation and its reply is a question (the planner's *)
(* or the supervisor's request to confirm the datum), whatever the risk    *)
(* level and the snapshot.                                                 *)
C13_MissingEvidenceAsks ==
    EvidenceMissing =>
        /\ NoActionReturned
        /\ sup_out.decision.reply \in
              {"Necesito confirmar ese dato."}
              \cup {sup_in.output.questions[i] : i \in 1..Len(sup_in.output.questions)}

ReachesEvidenceGate ==
    /\ sup_in.output.questions = <<>>
    /\ sup_in.output.actions # <<>>
    /\ validate_tool_input(FirstAction.tool, FirstAction.input) = {}

(* C13, amended: with an item of evidence missing the decision carries no  *)
(* action and asks no confirmation, whatever the risk level and the        *)
(* snapshot; its reply is the planner's question when the plan has one and *)
(* "Necesito confirmar ese dato." when the plan has an action with every   *)
(* required input (a plan without actions, or with an incomplete input, is *)
(* answered by the earlier gate).  An item present in another letter case  *)
(* is present: the decision never has reason missing_evidence then.        *)
C13_MissingEvidenceNoAction ==
    /\ EvidenceMissing =>
          /\ NoActionReturned
          /\ sup_in.output.questions # <<>> =>
                sup_out.decision.reply = sup_in.output.questions[1]
          /\ ReachesEvidenceGate =>
                /\ sup_out.decision.reply = "Necesito confirmar ese dato."
                /\ sup_out.decision.reason = "missing_evidence"
    /\ (sup_out.set /\ ~EvidenceMissing) => sup_out.decision.reason # "missing_evidence"

(* A high-risk action under a snapshot with its scope on was withheld for  *)
(* missing evidence.                                                       *)
C13_Witness ==
    /\ EvidenceMissing
    /\ ReachesEvidenceGate
    /\ FirstAction.risk_level = "high"
    /\ ScopeEntry.mode = "on"
    /\ sup_out.decision.reason = "missing_evidence"

----------------------------------------------------------------------------
(* The conversation state machine (packages/agent_core/core.py).           *)
(*                                                                         *)
(* The messages are a fixed set of texts; each parser is the table of      *)
(* what its regular expressions return on them.                            *)

Texts ==
    {"", "Olvidalo", "cancelar", "confirmo", "si",
     "agendame corte", "agendame corte manana 16",
     "agendame corte manana 16 por 30 min",
     "agendame peluqueria de siempre manana 16",
     "60", "1", "modo foco", "omitir"}

(* The commands that write autonomy rules *)
CommandTexts ==
    {"modo foco 2 horas", "solo urgencias", "no me jodas con habitos hoy", "normal"}

CANCEL_COMMANDS == {"cancelar", "cancela", "olvidalo"}
CONFIRM_COMMANDS_and_greeting == {"confirmo", "si", "s", "ok", "hola"}

CONFIRM_COMMANDS == {"confirmo", "si", "s", "ok"}

(* text.strip(), None for an empty text *)
_normalize_text(text) == IF text = "" THEN {} ELSE {text}

(* NFKD, drop non-ascii, lower, strip *)
_fold_text(text) == IF text = "Olvidalo" THEN "olvidalo" ELSE text

(* "agend" in folded *)
HasAgend(text) ==
    text \in {"agendame corte", "agendame corte manana 16",
              "agendame corte manana 16 por 30 min",
              "agendame peluqueria de siempre manana 16"}

(* "manana" and an hour in the text: tomorrow at 16:00 *)
_parse_datetime(text, t) ==
    IF text \in {"agendame corte manana 16", "agendame corte manana 16 por 30 min",
                 "agendame peluqueria de siempre manana 16", "manana 16"}
    THEN {(DayOf(t) + 1) * MinutesPerDay + 16 * 60}
    ELSE {}

_parse_duration_with_units(text) ==
    IF text = "agendame corte manana 16 por 30 min" THEN {30} ELSE {}

(* the first number of one to three digits, if positive *)
_parse_int(text) ==
    CASE text \in {"agendame corte manana 16", "agendame corte manana 16 por 30 min",
                   "agendame peluqueria de siempre manana 16", "manana 16"} -> {16}
      [] text = "60" -> {60}
      [] text = "1" -> {1}
      [] text = "2" -> {2}
      [] text = "modo foco 2 horas" -> {2}
      [] OTHER -> {}

_parse_choice_one_based(text) ==
    CASE text = "1" -> {1}
      [] text \in {"2", "modo foco 2 horas"} -> {2}
      [] OTHER -> {}

(* the first standalone 1 or 2, minus one *)
_parse_choice(text) ==
    CASE text = "1" -> {0}
      [] text \in {"2", "modo foco 2 horas"} -> {1}
      [] OTHER -> {}

_extract_title(text) ==
    CASE text \in {"agendame corte", "agendame corte manana 16"} -> "corte"
      [] text = "agendame corte manana 16 por 30 min" -> "corte     min"
      [] text = "agendame peluqueria de siempre manana 16" -> "peluqueria de siempre"
      [] OTHER -> text

(* "que tengo" or "que hay" in the folded text; the day is _parse_date's  *)
_parse_list_request(text, t) ==
    IF _fold_text(text) = "que tengo manana" THEN {[day |-> DayOf(t) + 1]} ELSE {}

_parse_schedule_request(text, t) ==
    IF ~HasAgend(_fold_text(text)) THEN {}
    ELSE {[title |-> _extract_title(text),
           start_dt |-> _parse_datetime(text, t),
           duration_minutes |-> _parse_duration_with_units(text),
           location |-> {}]}

(* TAG_RULES in dict order; "agendame" contains the keyword "agenda" *)
extract_tags(text) ==
    CASE text = "agendame peluqueria de siempre manana 16" -> <<"peluqueria", "agenda">>
      [] HasAgend(text) -> <<"agenda">>
      [] OTHER -> <<>>

HasDeSiempre(folded) == folded = "agendame peluqueria de siempre manana 16"

Words(folded) ==
    CASE folded \in {"olvidalo", "cancelar", "confirmo", "si", "60", "1", "2", "normal",
                    "omitir", "hola"} -> 1
      [] folded \in {"agendame corte", "modo foco", "solo urgencias", "necesito ayuda",
                     "manana 16", "status autonomia", "status proactivo"} -> 2
      [] folded \in {"gracias por todo", "autonomia on calendario"} -> 3
      [] OTHER -> 4

_should_skip_request_prompt(text) ==
    LET folded == _fold_text(text)
    IN IF folded = "" THEN TRUE
       ELSE IF folded \in {"hola", "buenas", "buen dia", "buenas tardes", "buenas noches", "ok"}
       THEN TRUE
       ELSE Words(folded) <= 1

(* datetime.isoformat and its inverse _parse_iso_datetime, which returns   *)
(* None for None and for a string fromisoformat rejects.                   *)
isoformat(t) == [ok |-> TRUE, t |-> t]
BadIso == [ok |-> FALSE, t |-> 0]
_parse_iso_datetime(value) == {v.t : v \in {x \in value : x.ok}}

----------------------------------------------------------------------------
(* Assistant requests (packages/assistant_requests).  A row is keyed by    *)
(* its dedupe_key f"{request_type}:{key}:{chat_id}".  Of context the row   *)
(* keeps dismissed_until; chat_id is part of the key.                      *)

SUPPRESS_DAYS == 30

_reopen_request(request) ==
    [request EXCEPT !.status = "open", !.asked_at = NoTime, !.answered_at = NoTime]

(* _get_dismissed_until: None when the context has no such key or its   *)
(* value does not parse                                                    *)
_get_dismissed_until(request) ==
    {v.t : v \in {x \in request.dismissed_until : x.ok}}

(* The rules of the detector pass context = {"chat_id": chat_id}; a call   *)
(* with context None is keyed to chat "unknown".  The new context          *)
(* replaces the row's, dismissed_until included, before it is read.        *)
create_or_reopen_request(reqs, chat_id, key, priority, t, reopen_if_answered) ==
    LET existing == reqs[chat_id][key] IN
    IF existing.status # "none"
    THEN LET updated == [existing EXCEPT !.priority = priority,
                                         !.dismissed_until = {}]
             dismissed_until == _get_dismissed_until(updated)
         IN [reqs EXCEPT ![chat_id][key] =
                IF updated.status = "dismissed"
                THEN IF \E until \in dismissed_until : until > t
                     THEN updated
                     ELSE _reopen_request(updated)
                ELSE IF updated.status = "answered" /\ reopen_if_answered
                THEN _reopen_request(updated)
                ELSE updated]
    ELSE [reqs EXCEPT ![chat_id][key] =
             [status |-> "open", priority |-> priority, asked_at |-> NoTime,
              answered_at |-> NoTime, dismissed_until |-> {}]]

mark_request_asked(reqs, chat_id, key, t) ==
    [reqs EXCEPT ![chat_id][key].status = "asked", ![chat_id][key].asked_at = t]

mark_request_answered(reqs, chat_id, key, t) ==
    [reqs EXCEPT ![chat_id][key].status = "answered", ![chat_id][key].answered_at = t]

mark_request_dismissed(reqs, chat_id, key, t) ==
    [reqs EXCEPT ![chat_id][key].status = "dismissed",
                 ![chat_id][key].answered_at = t,
                 ![chat_id][key].dismissed_until =
                     {isoformat(t + SUPPRESS_DAYS * MinutesPerDay)}]

(* status 'asked' for the chat, latest asked_at first; None if there is none *)
get_active_request(reqs, chat_id) ==
    LET asked == {k \in ReqKeys : reqs[chat_id][k].status = "asked"}
    IN IF asked = {} THEN {}
       ELSE {CHOOSE k \in asked :
                \A other \in asked : reqs[chat_id][k].asked_at >= reqs[chat_id][other].asked_at}

(* status 'open' for the chat, by priority desc; the rules of the detector *)
(* give every key its own priority, so created_at never breaks a tie      *)
RECURSIVE OrderOpen(_, _)
OrderOpen(reqs_of_chat, keys) ==
    IF keys = {} THEN <<>>
    ELSE LET first == CHOOSE k \in keys : \A other \in keys :
                        reqs_of_chat[k].priority >= reqs_of_chat[other].priority
         IN <<first>> \o OrderOpen(reqs_of_chat, keys \ {first})

get_open_requests(reqs, chat_id) ==
    OrderOpen(reqs[chat_id], {k \in ReqKeys : reqs[chat_id][k].status = "open"})

count_requests_asked_today(reqs, t) ==
    Cardinality({ck \in Chats \X ReqKeys :
                    /\ reqs[ck[1]][ck[2]].asked_at # NoTime
                    /\ DayOf(reqs[ck[1]][ck[2]].asked_at) = DayOf(t)})

(* RequestPolicy.should_ask *)
should_ask(request, now_local, autonomy_mode, cfg, asked_today) ==
    IF request.status # "open" THEN FALSE
    ELSE IF _in_quiet_hours(TimeOf(now_local), cfg) THEN FALSE
    ELSE IF autonomy_mode \in {"focus", "urgencies_only"} THEN FALSE
    ELSE IF asked_today >= 1 THEN FALSE
    ELSE IF request.priority >= 85 THEN TRUE
    ELSE _in_strong_window(TimeOf(now_local), cfg)

_has_fact(fs, key) == fs[key].confidence >= 70

_close_request_if_exists(reqs, chat_id, key, t) ==
    IF reqs[chat_id][key].status \in {"open", "asked"}
    THEN mark_request_answered(reqs, chat_id, key, t)
    ELSE reqs

_is_calendar_intent(folded, calendar_hint) == calendar_hint \/ HasAgend(folded)

_mentions_peluqueria_de_siempre(folded) == HasDeSiempre(folded)

(* NeedsDetector.scan: the rules in order (the dietetica rule matches no   *)
(* text of Texts).  prompts is the chat's count of 'Cuanto dura' replies.  *)
scan(reqs, fs, chat_id, folded, calendar_hint, token, env, prompts, t) ==
    LET calendar_intent == _is_calendar_intent(folded, calendar_hint)
        calendar_auth(r) ==
            IF ~calendar_intent THEN r
            ELSE IF token THEN _close_request_if_exists(r, chat_id, "calendar_auth", t)
            ELSE create_or_reopen_request(r, chat_id, "calendar_auth", 90, t, TRUE)
        default_barbershop(r) ==
            IF ~_mentions_peluqueria_de_siempre(folded) THEN r
            ELSE IF _has_fact(fs, "default_barbershop")
            THEN _close_request_if_exists(r, chat_id, "default_barbershop", t)
            ELSE create_or_reopen_request(r, chat_id, "default_barbershop", 75, t, FALSE)
        preferred_duration(r) ==
            IF ~calendar_intent THEN r
            ELSE IF _has_fact(fs, "preferred_event_duration_minutes")
            THEN _close_request_if_exists(r, chat_id, "preferred_event_duration_minutes", t)
            ELSE IF prompts < 3 THEN r
            ELSE create_or_reopen_request(r, chat_id, "preferred_event_duration_minutes",
                                          60, t, FALSE)
        user_chat(r) ==
            IF env # NoChat \/ _has_fact(fs, "user_chat_id")
            THEN _close_request_if_exists(r, chat_id, "user_chat_id", t)
            ELSE create_or_reopen_request(r, chat_id, "user_chat_id", 55, t, FALSE)
    IN user_chat(preferred_duration(default_barbershop(calendar_auth(reqs))))

----------------------------------------------------------------------------
(* The handler.  w is the database as the handler's session sees it, ctx   *)
(* what the handler reads but does not change: the chat, the clock, the    *)
(* stored Google token, USER_CHAT_ID, the chat's count of 'Cuanto dura'    *)
(* replies, and what the calendar API and the message transport will do.   *)
(* A reply is the sequence of the parts of its text; <<>> is None.         *)

NoReply == <<>>
Result(w, reply) == [w |-> w, reply |-> reply, raised |-> FALSE]
Raised(w) == [w |-> w, reply |-> NoReply, raised |-> TRUE]

Answered(r) == r.raised \/ r.reply # NoReply

(* "reply = prompt or fallback" *)
OrReply(r, fallback) == IF r.reply # NoReply THEN r ELSE Result(r.w, fallback)

CalendarOutcomes == {"ok", "not_authorized", "config_error", "error"}

RequestPrompt(key) ==
    CASE key = "calendar_auth" -> "Para agendar en tu calendario necesito autorizacion."
      [] key = "default_barbershop" ->
            "Para ayudarte con la peluqueria de siempre, me falta el nombre o numero."
      [] key = "preferred_event_duration_minutes" ->
            "Para agilizar tus agendas, cual es tu duracion preferida en minutos?"
      [] OTHER -> "Para enviarte proactivos y resumen, queres usar este chat como principal?"

_auth_message == <<"Necesito autorizacion de Google Calendar.">>

upsert_fact(fs, key, value, confidence) ==
    [fs EXCEPT ![key] = [value |-> value, confidence |-> confidence]]

(* _get_request_by_key finds no row when the status is "none" *)
_ask_request_if_allowed(w, ctx, key) ==
    LET request == w.requests[ctx.chat_id][key] IN
    IF request.status = "none" THEN Result(w, NoReply)
    ELSE LET cfg == _get_or_create_config(w.config)
             w1 == [w EXCEPT !.config = cfg]
             autonomy_mode == _get_autonomy_mode(w.rules, ctx.t)
             asked_today == count_requests_asked_today(w.requests, ctx.t)
         IN IF should_ask(request, ctx.t, autonomy_mode, cfg, asked_today)
            THEN Result([w1 EXCEPT !.requests = mark_request_asked(@, ctx.chat_id, key, ctx.t)],
                        <<RequestPrompt(key)>>)
            ELSE Result(w1, NoReply)

DetectorScan(w, ctx, folded, calendar_hint) ==
    [w EXCEPT !.requests = scan(@, w.facts, ctx.chat_id, folded, calendar_hint,
                                ctx.token, ctx.env, ctx.prompts, ctx.t)]

_handle_calendar_auth_needed(w, ctx) ==
    OrReply(_ask_request_if_allowed(DetectorScan(w, ctx, "calendario", TRUE), ctx,
                                    "calendar_auth"),
            _auth_message)

RECURSIVE AskFirstAllowed(_, _, _, _)
AskFirstAllowed(w, ctx, keys, i) ==
    IF i > Len(keys) THEN Result(w, NoReply)
    ELSE LET r == _ask_request_if_allowed(w, ctx, keys[i])
         IN IF r.reply # NoReply THEN r ELSE AskFirstAllowed(r.w, ctx, keys, i + 1)

_maybe_ask_request(w, ctx, normalized) ==
    LET st == w.state[ctx.chat_id] IN
    IF st.pending_action_json # {} \/ st.pending_question_json # {} THEN Result(w, NoReply)
    ELSE IF get_active_request(w.requests, ctx.chat_id) # {} THEN Result(w, NoReply)
    ELSE LET ask(w1) ==
                 IF _should_skip_request_prompt(normalized) THEN Result(w1, NoReply)
                 ELSE AskFirstAllowed(w1, ctx, get_open_requests(w1.requests, ctx.chat_id), 1)
         IN ask(DetectorScan(w, ctx, _fold_text(normalized), FALSE))

(* the answer to the request the assistant asked last *)
_handle_assistant_request_answer(w, ctx, normalized, folded) ==
    LET active == get_active_request(w.requests, ctx.chat_id) IN
    IF active = {} THEN Result(w, NoReply)
    ELSE LET key == CHOOSE k \in active : TRUE
             answered == [w EXCEPT !.requests = mark_request_answered(@, ctx.chat_id, key, ctx.t)]
         IN IF folded \in {"omitir", "despues"}
            THEN Result([w EXCEPT !.requests = mark_request_dismissed(@, ctx.chat_id, key, ctx.t)],
                        <<"Listo, lo dejo para mas tarde.">>)
            ELSE IF key = "calendar_auth" THEN Result(answered, _auth_message)
            ELSE IF key = "preferred_event_duration_minutes"
            THEN LET minutes == _parse_int(normalized) IN
                 IF minutes = {}
                 THEN Result(w, <<"Necesito un numero de minutos (30/60/90).">>)
                 ELSE Result([answered EXCEPT !.facts =
                                 upsert_fact(@, key, ToString(CHOOSE m \in minutes : TRUE), 80)],
                             <<"Listo, lo guarde.">>)
            ELSE IF key = "default_barbershop"
            THEN Result([answered EXCEPT !.facts = upsert_fact(@, key, normalized, 80)],
                        <<"Listo, lo guarde.">>)
            ELSE Result([answered EXCEPT !.facts = upsert_fact(@, key, ctx.chat_id, 90)],
                        <<"Listo, lo guarde.">>)

(* until_at is set only for a truthy number of hours *)
_create_autonomy_rule(rs, scope, mode, hours, t) ==
    Append(rs, Rule(scope, mode,
                    IF hours # {} /\ hours # {0}
                    THEN t + 60 * (CHOOSE h \in hours : TRUE) ELSE NoTime))

ClearPending_keeps_question(w, chat_id, last_intent) ==
    [w EXCEPT !.state[chat_id].pending_action_json = {},
              !.state[chat_id].last_intent = last_intent]

(* pending_action_json = None, pending_question_json = None, last_intent *)
ClearPending(w, chat_id, last_intent) ==
    [w EXCEPT !.state[chat_id] = ConversationState({}, {}, last_intent)]

NoRule == [scope |-> "none", mode |-> "none", until_at |-> NoTime]

(* .filter(scope == scope).order_by(created_at.desc()).first() *)
RECURSIVE NewestRule(_, _, _)
NewestRule(rs, scope, i) ==
    IF i = 0 THEN NoRule
    ELSE IF rs[i].scope = scope THEN rs[i]
    ELSE NewestRule(rs, scope, i - 1)

ActionScopes == {"calendar_create", "message_reply", "tasks_manage"}

(* the lines of the reply, by scope: the status and the minutes remaining *)
_build_autonomy_status(rs, t) ==
    [scope \in ActionScopes |->
        LET rule == NewestRule(rs, scope, Len(rs)) IN
        IF rule # NoRule /\ rule.until_at # NoTime /\ rule.until_at < t
        THEN [status |-> "off", remaining |-> {}]
        ELSE IF rule # NoRule
        THEN [status |-> rule.mode,
              remaining |-> IF rule.until_at # NoTime THEN {rule.until_at - t} ELSE {}]
        ELSE [status |-> "off", remaining |-> {}]]

(* "Modo proactivo: <label>. Limite diario: <n>." *)
_build_proactive_status(cfg, rs, t) ==
    LET mode == _get_autonomy_mode(rs, t)
        mode_label == CASE mode = "focus" -> "foco"
                        [] mode = "urgencies_only" -> "solo urgencias"
                        [] OTHER -> mode
    IN <<"Modo proactivo:", mode_label, "Limite diario:", ToString(cfg.daily_proactive_limit)>>

(* folded.startswith("modo foco"); no text of the model is autonomia off  *)
StartsWithModoFoco(folded) == folded \in {"modo foco", "modo foco 2 horas"}

StartsWithAutonomiaOn(folded) == folded = "autonomia on calendario"

_parse_autonomy_scope(folded) ==
    IF folded = "autonomia on calendario" THEN {"calendar_create"} ELSE {}

_handle_focus_commands(w, ctx, folded) ==
    IF StartsWithAutonomiaOn(folded)
    THEN LET scope == _parse_autonomy_scope(folded)
             hours == _parse_int(folded)
         IN IF scope = {} THEN Result(w, <<"Para que scope? calendario/mensajes/tareas">>)
            ELSE IF hours = {}
            THEN Result([w EXCEPT
                           !.state[ctx.chat_id].pending_question_json =
                               {[type |-> "autonomy_hours", scope |-> CHOOSE x \in scope : TRUE]},
                           !.state[ctx.chat_id].last_intent = "autonomy_on"],
                        <<"Por cuantas horas?">>)
            ELSE Result([ClearPending(w, ctx.chat_id, "autonomy_on") EXCEPT
                           !.rules = _create_autonomy_rule(@, CHOOSE x \in scope : TRUE, "on",
                                                           hours, ctx.t)],
                        <<"Autonomia activada para", CHOOSE x \in scope : TRUE, "por",
                          ToString(CHOOSE h \in hours : TRUE), "horas.">>)
    ELSE IF folded = "status autonomia"
    THEN LET status == _build_autonomy_status(w.rules, ctx.t)
         IN Result(ClearPending(w, ctx.chat_id, "autonomy_status"),
                   <<"Autonomia:", status["calendar_create"].status,
                     status["message_reply"].status, status["tasks_manage"].status>>)
    ELSE IF folded = "status proactivo"
    THEN LET cfg == _get_or_create_config(w.config)
         IN Result([ClearPending(w, ctx.chat_id, "proactive_status") EXCEPT !.config = cfg],
                   _build_proactive_status(cfg, w.rules, ctx.t))
    ELSE IF StartsWithModoFoco(folded)
    THEN LET hours == _parse_int(folded) IN
         IF hours = {}
         THEN Result([w EXCEPT
                        !.state[ctx.chat_id].pending_question_json = {[type |-> "focus_hours"]},
                        !.state[ctx.chat_id].last_intent = "focus_mode"],
                     <<"Por cuantas horas?">>)
         ELSE Result([ClearPending(w, ctx.chat_id, "focus_mode") EXCEPT
                        !.rules = _create_autonomy_rule(@, "global", "focus", hours, ctx.t)],
                     <<"Modo foco activado por", ToString(CHOOSE h \in hours : TRUE), "horas.">>)
    ELSE IF folded = "solo urgencias"
    THEN Result([ClearPending(w, ctx.chat_id, "urgencies_only") EXCEPT
                   !.rules = _create_autonomy_rule(@, "global", "urgencies_only", {}, ctx.t)],
                <<"Listo, solo urgencias.">>)
    ELSE IF folded \in {"normal", "modo normal"}
    THEN Result([ClearPending(w, ctx.chat_id, "normal") EXCEPT
                   !.rules = _create_autonomy_rule(@, "global", "normal", {}, ctx.t)],
                <<"Modo normal activado.">>)
    ELSE Result(w, NoReply)

(* no text of Texts matches contacto / subi confianza / auto-reply *)
_handle_contact_commands(w, folded) == Result(w, NoReply)

(* The habits table (migration 0011_habits_block11): two active habits,    *)
(* in created_at order.                                                    *)
HabitRows == <<[id |-> "1", name |-> "correr"], [id |-> "2", name |-> "leer"]>>

(* Habit.name.ilike(f"%{query_text}%") *)
NameMatches(name, query_text) ==
    CASE query_text = name -> TRUE
      [] query_text = "r" -> name \in {"correr", "leer"}
      [] OTHER -> FALSE

find_habits_by_name(query_text) ==
    SelectSeq(HabitRows, LAMBDA habit : NameMatches(habit.name, query_text))

(* (habit, error): exactly one match, or the error reply *)
_resolve_habit(name) ==
    LET matches == find_habits_by_name(CHOOSE n \in name : TRUE)
    IN IF name = {} THEN [habit |-> {}, error |-> <<"Decime el habito.">>]
       ELSE IF matches = <<>> THEN [habit |-> {}, error |-> <<"No encontre ese habito.">>]
       ELSE IF Len(matches) > 1
       THEN [habit |-> {}, error |-> <<"Hay varios:", "Decime cual.">>]
       ELSE [habit |-> {matches[1]}, error |-> NoReply]

STATUS_DONE == "done"
STATUS_SKIPPED == "skipped"
STATUS_PARTIAL == "partial"
SUCCESS_STATUSES == {STATUS_DONE, STATUS_PARTIAL}

HabitLog(habit_id, date, status, note) ==
    [habit_id |-> habit_id, date |-> date, status |-> status, note |-> note]

LogRows(logs, habit_id, target_date) ==
    {i \in 1..Len(logs) : logs[i].habit_id = habit_id /\ logs[i].date = target_date}

_upsert_log_inserting(logs, habit_id, target_date, status, note) ==
    [logs |-> Append(logs, HabitLog(habit_id, target_date, status, note)),
     was_success |-> FALSE]

(* (log, was_success): the row of the habit and the date is updated, or   *)
(* a row is added                                                          *)
_upsert_log(logs, habit_id, target_date, status, note) ==
    LET found == LogRows(logs, habit_id, target_date)
    IN IF found # {}
       THEN LET i == CHOOSE j \in found : TRUE
            IN [logs |-> [logs EXCEPT ![i].status = status, ![i].note = note],
                was_success |-> logs[i].status \in SUCCESS_STATUSES]
       ELSE [logs |-> Append(logs, HabitLog(habit_id, target_date, status, note)),
             was_success |-> FALSE]

(* the newest nudge sent for the habit since 00:00 counts as done_after *)
_record_nudge_success(w, habit_id, t) ==
    LET sent == {i \in 1..Len(w.habit_nudges) :
                    /\ w.habit_nudges[i].habit_id = habit_id
                    /\ w.habit_nudges[i].decision = "sent"
                    /\ w.habit_nudges[i].ts >= DayOf(t) * MinutesPerDay}
    IN IF sent = {} THEN w
       ELSE LET newest == CHOOSE i \in sent :
                             \A j \in sent : w.habit_nudges[j].ts < w.habit_nudges[i].ts
                                              \/ (w.habit_nudges[j].ts = w.habit_nudges[i].ts
                                                  /\ j >= i)
            IN [w EXCEPT !.what_works =
                   _update_strategy_stats(@, w.habit_nudges[newest].strategy, 0, 1)]

LogWith(w, habit_id, t, status, note) ==
    LET upserted == _upsert_log(w.habit_logs, habit_id, DayOf(t), status, note)
        logged == [w EXCEPT !.habit_logs = upserted.logs]
    IN IF status \in SUCCESS_STATUSES /\ ~upserted.was_success
       THEN _record_nudge_success(logged, habit_id, t)
       ELSE logged

log_done(w, habit_id, t, note) == LogWith(w, habit_id, t, STATUS_DONE, note)
log_skip(w, habit_id, t, note) == LogWith(w, habit_id, t, STATUS_SKIPPED, note)
log_partial(w, habit_id, t, note) == LogWith(w, habit_id, t, STATUS_PARTIAL, note)

(* consecutive days with a done or partial log, back from the day *)
RECURSIVE current_streak(_, _, _)
current_streak(logs, habit_id, day) ==
    IF \E i \in LogRows(logs, habit_id, day) : logs[i].status \in SUCCESS_STATUSES
    THEN 1 + current_streak(logs, habit_id, day - 1)
    ELSE 0

StartsWithHecho(folded) == folded \in {"hecho correr", "hecho leer", "hecho nadar"}
StartsWithNoHoy(folded) == folded \in {"no hoy correr", "no hoy r"}

(* _extract_after_words *)
HabitArgument(folded) ==
    CASE folded \in {"hecho correr", "no hoy correr"} -> {"correr"}
      [] folded = "hecho leer" -> {"leer"}
      [] folded = "hecho nadar" -> {"nadar"}
      [] folded = "no hoy r" -> {"r"}
      [] OTHER -> {}

(* of the other habit commands only "no me jodas con habitos hoy" is in    *)
(* the texts; its rule lasts until 23:59 of the current day                *)
_handle_habit_commands(w, ctx, folded) ==
    IF folded = "no me jodas con habitos hoy"
    THEN Result([w EXCEPT !.rules = Append(@, Rule("habits", "off",
                                   DayOf(ctx.t) * MinutesPerDay + 23 * 60 + 59))],
                <<"Ok, hoy no te voy a insistir con habitos.">>)
    ELSE IF StartsWithHecho(folded)
    THEN LET resolved == _resolve_habit(HabitArgument(folded))
         IN IF resolved.error # NoReply THEN Result(w, resolved.error)
            ELSE LET habit == CHOOSE h \in resolved.habit : TRUE
                     logged == log_done(w, habit.id, ctx.t, {})
                 IN Result(logged,
                           <<"Listo, registre", habit.name, "Racha:",
                             ToString(current_streak(logged.habit_logs, habit.id,
                                                     DayOf(ctx.t)))>>)
    ELSE IF StartsWithNoHoy(folded)
    THEN LET resolved == _resolve_habit(HabitArgument(folded))
         IN IF resolved.error # NoReply THEN Result(w, resolved.error)
            ELSE LET habit == CHOOSE h \in resolved.habit : TRUE
                 IN Result(log_skip(w, habit.id, ctx.t, {}),
                           <<"Ok, marcado como no hoy:", habit.name>>)
    ELSE Result(w, NoReply)

----------------------------------------------------------------------------
(* Google Calendar seen through CalendarTool: the events are intervals.    *)

list_events(cal, time_min, time_max) ==
    {ev \in cal : ev.start < time_max /\ ev.end > time_min}

is_free(cal, start, end) == list_events(cal, start, end) = {}

_find_alternatives_all(cal, start_dt, duration) ==
    LET free == SelectSeq(<<30, 60, 90, 120>>,
                    LAMBDA offset : is_free(cal, start_dt + offset, start_dt + offset + duration))
    IN [i \in 1..Len(free) |-> start_dt + free[i]]

_find_alternatives(cal, start_dt, duration) ==
    LET free == SelectSeq(<<30, 60, 90, 120>>,
                    LAMBDA offset : is_free(cal, start_dt + offset, start_dt + offset + duration))
        kept == IF Len(free) > 2 THEN SubSeq(free, 1, 2) ELSE free
    IN [i \in 1..Len(kept) |-> start_dt + kept[i]]

CalendarCreate(title, start, end, location) ==
    [type |-> "calendar_create",
     payload |-> [title |-> title, start |-> start, end |-> end, location |-> location]]

_build_plan_text(payload) ==
    IF _parse_iso_datetime(payload.start) # {} /\ _parse_iso_datetime(payload.end) # {}
    THEN <<"Voy a agendar", payload.title, "Confirmas? (si/confirmo)">>
    ELSE <<"Confirmas? (si/confirmo)">>

(* A row of tool_runs.  The four audit columns are nullable: {} is NULL.   *)
(* w.tool_runs are the rows committed while one message is handled.       *)
ToolRun(tool_name, status, input_json, output_json, decision_source, requested_by, risk_level, autonomy_mode_snapshot) ==
    [tool_name |-> tool_name, status |-> status, input_json |-> input_json,
     output_json |-> output_json, decision_source |-> decision_source,
     requested_by |-> requested_by, risk_level |-> risk_level,
     autonomy_mode_snapshot |-> autonomy_mode_snapshot]

(* core._log_tool_run: session.add(run); session.commit() *)
_log_tool_run(w, tool_name, status, input_json, output_json, decision_source, requested_by, risk_level, autonomy_snapshot) ==
    [w EXCEPT !.tool_runs = Append(@, ToolRun(tool_name, status, input_json, output_json,
                                              {decision_source}, {requested_by},
                                              {risk_level}, {autonomy_snapshot}))]

(* CalendarTool._log_tool_run of a CalendarTool(): log_runs is True and    *)
(* audit_context is {}, so each audit_context.get(...) is None; the row is *)
(* committed in a session of its own                                       *)
CalendarTool_log_tool_run(w, tool_name, input_json, output_json, status) ==
    [w EXCEPT !.tool_runs = Append(@, ToolRun(tool_name, status, input_json, output_json,
                                              {}, {}, {}, {}))]

(* list_events raises what the API raises, after logging the error *)
CalendarTool_list_events(w, ctx, input_json) ==
    CalendarTool_log_tool_run(w, "calendar.list_events", input_json,
                              [result |-> ctx.cal], IF ctx.cal = "ok" THEN "success" ELSE "error")

(* is_free when list_events returns *)
CalendarTool_is_free(w, ctx, start, end) ==
    CalendarTool_log_tool_run(
        CalendarTool_list_events(w, ctx, [start |-> {isoformat(start)}, end |-> {isoformat(end)}]),
        "calendar.is_free", [start |-> {isoformat(start)}, end |-> {isoformat(end)}],
        [result |-> IF is_free(w.calendar, start, end) THEN "free" ELSE "busy"], "success")

(* the is_free calls of _find_alternatives: it stops at the second free one *)
RECURSIVE ProbeAlternatives(_, _, _, _, _, _)
ProbeAlternatives(w, ctx, start_dt, duration, i, found) ==
    IF i > 4 \/ found >= 2 THEN w
    ELSE LET candidate == start_dt + 30 * i IN
         ProbeAlternatives(CalendarTool_is_free(w, ctx, candidate, candidate + duration),
                           ctx, start_dt, duration, i + 1,
                           IF is_free(w.calendar, candidate, candidate + duration)
                           THEN found + 1 ELSE found)

WithLocation(reply, location) ==
    IF location # {} THEN reply \o <<"Voy a usar", CHOOSE l \in location : TRUE>> ELSE reply

NeedsAuth(w, ctx, chat_id) ==
    _handle_calendar_auth_needed([w EXCEPT !.state[ctx.chat_id].last_intent = "needs_auth"],
                                 [ctx EXCEPT !.chat_id = chat_id])

(* ctx.chat_id is the chat whose state row is written; chat_id is the     *)
(* argument, which the pending-question resolver takes from the question   *)
_handle_schedule_request(w, ctx, request, chat_id) ==
    LET c == ctx.chat_id
        title == request.title
        location == request.location
    IN
    IF request.start_dt = {}
    THEN Result([w EXCEPT
                   !.state[c].pending_question_json =
                       {[type |-> "start_time", title |-> title,
                         duration_minutes |-> request.duration_minutes,
                         location |-> location, chat_id |-> chat_id]},
                   !.state[c].last_intent = "calendar_schedule"],
                WithLocation(<<"Para que dia y hora? (ej: manana 16)">>, location))
    ELSE LET start_dt == CHOOSE s \in request.start_dt : TRUE IN
    IF request.duration_minutes = {}
    THEN Result([w EXCEPT
                   !.state[c].pending_question_json =
                       {[type |-> "duration_minutes", title |-> title,
                         start_dt |-> {isoformat(start_dt)},
                         location |-> location, chat_id |-> chat_id]},
                   !.state[c].last_intent = "calendar_schedule"],
                WithLocation(<<"Cuanto dura? 30/60/90">>, location))
    ELSE LET duration == CHOOSE d \in request.duration_minutes : TRUE
             end_dt == start_dt + duration
         IN
    IF ~ctx.token THEN NeedsAuth(w, ctx, chat_id)
    ELSE LET failed == CalendarTool_list_events(w, ctx, [start |-> {isoformat(start_dt)},
                                                         end |-> {isoformat(end_dt)}])
             queried == CalendarTool_is_free(w, ctx, start_dt, end_dt)
         IN
    IF ctx.cal = "not_authorized" THEN NeedsAuth(failed, ctx, chat_id)
    ELSE IF ctx.cal = "config_error"
    THEN Result([failed EXCEPT !.state[c].last_intent = "config_error"],
                <<"Falta configurar Google Calendar.">>)
    ELSE IF ctx.cal = "error" THEN Raised(failed)
    ELSE IF ~is_free(w.calendar, start_dt, end_dt)
    THEN LET alternatives == _find_alternatives(w.calendar, start_dt, duration)
             probed == ProbeAlternatives(queried, ctx, start_dt, duration, 1, 0)
         IN
         IF alternatives = <<>>
         THEN Result(probed, <<"No hay disponibilidad en ese horario. Proba otro.">>)
         ELSE Result([probed EXCEPT
                        !.state[c].pending_question_json =
                            {[type |-> "conflict_choice", title |-> title,
                              duration_minutes |-> {duration},
                              options |-> [i \in 1..Len(alternatives) |->
                                             [start |-> {isoformat(alternatives[i])},
                                              end |-> {isoformat(alternatives[i] + duration)}]],
                              chat_id |-> chat_id]},
                        !.state[c].last_intent = "calendar_schedule"],
                     <<"Hay conflicto. Opciones:", ToString(Len(alternatives)), "Responde 1 o 2.">>)
    ELSE LET plan_payload == CalendarCreate(title, {isoformat(start_dt)},
                                            {isoformat(end_dt)}, location)
         IN Result([queried EXCEPT
                      !.state[c] = ConversationState({plan_payload}, {}, "calendar_schedule")],
                   _build_plan_text(plan_payload.payload))

Reask_dropping_question(w, reply) ==
    Result([w EXCEPT !.state = [c \in DOMAIN @ |->
                                  [@[c] EXCEPT !.pending_question_json = {}]]], reply)

(* "return AgentResult(reply_text=...)" of an answer that does not parse:  *)
(* nothing is assigned and nothing is committed                            *)
Reask(w, reply) == Result(w, reply)

(* the question types are the five the handlers store, so the resolver's  *)
(* fall-through for another type is never taken                            *)
_handle_pending_question(w, ctx, normalized) ==
    LET c == ctx.chat_id
        question == CHOOSE q \in w.state[c].pending_question_json : TRUE
        q_type == question.type
        cleared == [w EXCEPT !.state[c].pending_question_json = {}]
    IN
    IF q_type = "duration_minutes"
    THEN LET duration == _parse_int(normalized)
             start_dt == _parse_iso_datetime(question.start_dt)
         IN IF duration = {} THEN Reask(w, <<"Indica la duracion en minutos (30/60/90).">>)
            ELSE IF start_dt = {} THEN Result(cleared, <<"Para que dia y hora?">>)
            ELSE _handle_schedule_request(cleared, ctx,
                    [title |-> question.title, start_dt |-> start_dt,
                     duration_minutes |-> duration, location |-> question.location],
                    question.chat_id)
    ELSE IF q_type = "start_time"
    THEN LET start_dt == _parse_datetime(normalized, ctx.t) IN
         IF start_dt = {} THEN Reask(w, <<"Para que dia y hora? (ej: manana 16)">>)
         ELSE IF question.duration_minutes # {} /\ question.duration_minutes # {0}
         THEN _handle_schedule_request(cleared, ctx,
                    [title |-> question.title, start_dt |-> start_dt,
                     duration_minutes |-> question.duration_minutes,
                     location |-> question.location],
                    question.chat_id)
         ELSE Result([w EXCEPT
                        !.state[c].pending_question_json =
                            {[type |-> "duration_minutes", title |-> question.title,
                              start_dt |-> {isoformat(CHOOSE s \in start_dt : TRUE)},
                              location |-> question.location,
                              chat_id |-> question.chat_id]},
                        !.state[c].last_intent = "calendar_schedule"],
                     <<"Cuanto dura? 30/60/90">>)
    ELSE IF q_type = "conflict_choice"
    THEN LET choice == _parse_choice(normalized)
             options == question.options
         IN IF choice = {} \/ (CHOOSE n \in choice : TRUE) >= Len(options)
            THEN Reask(w, <<"Responde 1 o 2.">>)
            ELSE LET option == options[(CHOOSE n \in choice : TRUE) + 1]
                     plan_payload == CalendarCreate(question.title, option.start, option.end, {})
                 IN Result([w EXCEPT !.state[c] =
                               ConversationState({plan_payload}, {}, "calendar_schedule")],
                           _build_plan_text(plan_payload.payload))
    ELSE IF q_type = "focus_hours"
    THEN LET hours == _parse_int(normalized) IN
         IF hours = {} THEN Reask(w, <<"Por cuantas horas?">>)
         ELSE Result([ClearPending(w, c, "focus_mode") EXCEPT
                        !.rules = _create_autonomy_rule(@, "global", "focus", hours, ctx.t)],
                     <<"Modo foco activado por", ToString(CHOOSE h \in hours : TRUE), "horas.">>)
    ELSE LET hours == _parse_int(normalized) IN
         IF hours = {} THEN Reask(w, <<"Por cuantas horas?">>)
         ELSE Result([ClearPending(w, c, "autonomy_on") EXCEPT
                        !.rules = _create_autonomy_rule(@, question.scope, "on", hours, ctx.t)],
                     <<"Autonomia activada para", question.scope, "por",
                       ToString(CHOOSE h \in hours : TRUE), "horas.">>)

(* Conversation threads (packages/relations/threads.py).  The id of a     *)
(* thread is its position in the table; a contact is named by its chat.    *)

ConversationThread(contact, status) == [contact |-> contact, status |-> status]

NonClosed(ths, contact) ==
    {i \in 1..Len(ths) : ths[i].contact = contact /\ ths[i].status # "closed"}

(* The non-closed thread of the contact with the newest updated_at, or a   *)
(* new open thread.  Which of several non-closed threads is the newest     *)
(* depends on how updated_at is refreshed, so each of them is an outcome.  *)
get_or_create_thread(ths, contact) ==
    IF NonClosed(ths, contact) # {}
    THEN {[threads |-> ths, id |-> i] : i \in NonClosed(ths, contact)}
    ELSE {[threads |-> Append(ths, ConversationThread(contact, "open")),
           id |-> Len(ths) + 1]}

_status_after_inbound(current, kind) ==
    IF kind = "question" THEN "waiting_me"
    ELSE IF kind = "closing" THEN "closed"
    ELSE IF current = "waiting_them" THEN "open"
    ELSE current

_status_after_outbound(current, kind) ==
    IF kind = "question" THEN "waiting_them"
    ELSE IF kind = "closing" THEN "closed"
    ELSE IF current = "waiting_me" THEN "open"
    ELSE current

record_inbound(ths, id, kind) ==
    [ths EXCEPT ![id].status = _status_after_inbound(@, kind)]

record_outbound(ths, id, kind) ==
    [ths EXCEPT ![id].status = _status_after_outbound(@, kind)]

(* "?" in text *)
HasQuestionMark(text) ==
    text \in {"me pasas el precio?",
              "Ana?, gracias por consultar. Te paso el precio en breve."}

(* "question" if "?" in text else "info" *)
_outbound_kind(text) == IF HasQuestionMark(text) THEN "question" ELSE "info"

(* The message is sent and stored, then the thread of that id, closed or   *)
(* not, records the outbound message; the result is whether it was sent.   *)
send_contact_reply(w, thread_id, chat_id, text, outbound_kind, send_ok, log_context) ==
    LET sent == [w EXCEPT !.message_sends = @ + 1]
    IN IF thread_id \notin 1..Len(w.threads) THEN [w |-> sent, ok |-> FALSE]
       ELSE LET recorded == [sent EXCEPT
                               !.threads = record_outbound(@, thread_id, outbound_kind)]
            IN [w |-> IF log_context
                      THEN _log_tool_run(recorded, "message.send",
                                         IF send_ok THEN "success" ELSE "error",
                                         [chat_id |-> {chat_id}, text |-> {text}],
                                         [sent |-> send_ok], "supervisor", "worker",
                                         "medium", <<>>)
                      ELSE recorded,
                ok |-> send_ok]

_confirm_pending_action_no_call(w, ctx) ==
    Result(ClearPending(w, ctx.chat_id, "calendar_execute"), <<"Listo, evento creado.">>)

(* a pending action is the dict the schedule handler or the planner stored *)
_confirm_pending_action(w, ctx) ==
    LET c == ctx.chat_id
        pending == CHOOSE a \in w.state[c].pending_action_json : TRUE
        dropped == [w EXCEPT !.state[c].pending_action_json = {}]
    IN
    IF pending.type = "message_send"
    THEN IF pending.payload.chat_id = {} \/ pending.payload.text = {}
         THEN Result(dropped, <<"No pude enviar el mensaje. Reintenta.">>)
         ELSE LET text == CHOOSE t \in pending.payload.text : TRUE
                  replied ==
                     IF pending.payload.thread_id # {}
                     THEN send_contact_reply(w, CHOOSE id \in pending.payload.thread_id : TRUE,
                                             CHOOSE d \in pending.payload.chat_id : TRUE,
                                             text, _outbound_kind(text), ctx.send_ok, FALSE)
                     ELSE [w |-> [w EXCEPT !.message_sends = @ + 1], ok |-> ctx.send_ok]
                  logged == _log_tool_run(
                                replied.w, "message.send",
                                IF replied.ok THEN "success" ELSE "error",
                                [chat_id |-> pending.payload.chat_id,
                                 text |-> pending.payload.text],
                                [sent |-> replied.ok], "user", "user", "medium", <<>>)
                  sent == ClearPending(logged, c, "message_send")
              IN IF replied.ok THEN Result(sent, <<"Listo, mensaje enviado.">>)
                 ELSE Result(sent, <<"No pude enviar el mensaje.">>)
    ELSE IF pending.type # "calendar_create" THEN Result(dropped, NoReply)
    ELSE LET start_dt == _parse_iso_datetime(pending.payload.start)
             end_dt == _parse_iso_datetime(pending.payload.end)
         IN
    IF start_dt = {} \/ end_dt = {} THEN Result(dropped, <<"No pude confirmar. Reintenta.">>)
    ELSE IF ~ctx.token THEN NeedsAuth(w, ctx, c)
    ELSE LET called == CalendarTool_log_tool_run(
                           [w EXCEPT !.create_calls = @ + 1], "calendar.create_event",
                           [title |-> pending.payload.title, start |-> pending.payload.start,
                            end |-> pending.payload.end,
                            location |-> pending.payload.location],
                           [result |-> ctx.cal], IF ctx.cal = "ok" THEN "success" ELSE "error")
         IN
    IF ctx.cal = "not_authorized" THEN NeedsAuth(called, ctx, c)
    ELSE IF ctx.cal = "config_error"
    THEN Result([called EXCEPT !.state[c].last_intent = "config_error"],
                <<"Falta configurar Google Calendar.">>)
    ELSE IF ctx.cal = "error" THEN Raised(called)
    ELSE Result([ClearPending(called, c, "calendar_execute") EXCEPT
                   !.calendar = @ \cup {[start |-> CHOOSE s \in start_dt : TRUE,
                                         end |-> CHOOSE e \in end_dt : TRUE]}],
                <<"Listo, evento creado.">>)

(* the events of one local day; nothing of the conversation is written *)
_handle_list_request(w, ctx, request) ==
    LET start_dt == request.day * MinutesPerDay
        end_dt == start_dt + MinutesPerDay
        listed == CalendarTool_list_events(w, ctx, [start |-> {isoformat(start_dt)},
                                                    end |-> {isoformat(end_dt)}])
    IN IF ~ctx.token THEN _handle_calendar_auth_needed(w, ctx)
       ELSE IF ctx.cal = "not_authorized" THEN _handle_calendar_auth_needed(listed, ctx)
       ELSE IF ctx.cal = "config_error"
       THEN Result(listed, <<"Falta configurar Google Calendar.">>)
       ELSE IF ctx.cal = "error" THEN Raised(listed)
       ELSE IF list_events(w.calendar, start_dt, end_dt) = {}
       THEN Result(listed, <<"No tenes eventos para", ToString(request.day)>>)
       ELSE Result(listed, <<"Eventos para", ToString(request.day),
                             ToString(Cardinality(list_events(w.calendar, start_dt, end_dt)))>>)

PendingActionBlocks_never(st, folded) == FALSE

(* "if state.pending_action_json and folded" *)
PendingActionBlocks(st, folded) == st.pending_action_json # {} /\ folded # ""

(* only default_barbershop is a fact the assistant stores for a tag *)
_find_fact_for_tags(fs, tags) ==
    IF (\E i \in 1..Len(tags) : tags[i] = "peluqueria") /\ _has_fact(fs, "default_barbershop")
    THEN {fs["default_barbershop"].value}
    ELSE {}

_tag_label(tag) ==
    CASE tag = "fletes" -> "servicio de fletes"
      [] tag = "camionetas" -> "camioneta"
      [] tag = "ascend" -> "dietetica"
      [] OTHER -> tag

(* the schedule request as _handle_memory_request leaves it: the handler   *)
(* sets its location in place when the fact of the tag is known            *)
LocationFromMemory(w, folded, tags, schedule_request) ==
    IF tags = <<>> \/ ~HasDeSiempre(folded) THEN schedule_request
    ELSE LET fact == _find_fact_for_tags(w.facts, tags) IN
         IF fact # {} THEN {[r EXCEPT !.location = fact] : r \in schedule_request}
         ELSE schedule_request

_handle_memory_request(w, ctx, normalized, folded, tags, schedule_request) ==
    IF tags = <<>> THEN Result(w, NoReply)
    ELSE IF ~HasDeSiempre(folded) THEN Result(w, NoReply)
    ELSE LET fact == _find_fact_for_tags(w.facts, tags) IN
         IF fact # {}
         THEN IF schedule_request # {} THEN Result(w, NoReply)
              ELSE Result(w, <<"Tengo registrado que el lugar de siempre es",
                               CHOOSE v \in fact : TRUE, "Queres que lo use?">>)
         ELSE OrReply(_ask_request_if_allowed(DetectorScan(w, ctx, folded, FALSE), ctx,
                                              "default_barbershop"),
                      <<"Ok, cuando quieras decime el", _tag_label(tags[1]), "de siempre.">>)

(* any(keyword in folded ...): "agend", "necesito", ... *)
HasLlmKeyword(folded) == HasAgend(folded) \/ folded = "necesito ayuda"

_should_use_llm(text) ==
    LET folded == _fold_text(text)
    IN IF folded = "" THEN FALSE
       ELSE IF folded \in {"hola", "buenas", "buen dia", "buenas tardes", "buenas noches"}
       THEN FALSE
       ELSE IF Words(folded) <= 1 THEN FALSE
       ELSE HasLlmKeyword(folded)

(* The planner is called, and then Supervisor(autonomy_snapshot,           *)
(* evidence_keys, contact_policy=...) raises TypeError: __init__ takes no  *)
(* contact_policy (supervisor.py 20).  Nothing the route assigned is       *)
(* committed.                                                              *)
_handle_llm_planner(w, ctx, user_text) ==
    IF ~_should_use_llm(user_text) THEN Result(w, NoReply) ELSE Raised(w)

(* ElseRoute is "result = route(...); if result: return result", and then  *)
(* the next route on what the route left in the session.                   *)
handle_incoming_message(w, ctx, text) ==
    LET c == ctx.chat_id
        ElseRoute(r, next_route(_)) == IF Answered(r) THEN r ELSE next_route(r.w)
    IN
    IF _normalize_text(text) = {} THEN Result(w, <<"Recibi tu mensaje">>)
    ELSE
    LET normalized == CHOOSE n \in _normalize_text(text) : TRUE
        folded == _fold_text(normalized)
    IN
    IF folded \in CANCEL_COMMANDS
    THEN Result(ClearPending(w, c, "cancel"), <<"Listo, cancelado.">>)
    ELSE
    ElseRoute(IF w.state[c].pending_action_json # {} /\ folded \in CONFIRM_COMMANDS
           THEN _confirm_pending_action(w, ctx)
           ELSE Result(w, NoReply),
    LAMBDA w_confirm :
    ElseRoute(_handle_assistant_request_answer(w_confirm, ctx, normalized, folded),
    LAMBDA w_answer :
    ElseRoute(_handle_focus_commands(w_answer, ctx, folded),
    LAMBDA w_focus :
    ElseRoute(_handle_contact_commands(w_focus, folded),
    LAMBDA w_contact :
    ElseRoute(_handle_habit_commands(w_contact, ctx, folded),
    LAMBDA w_habit :
    ElseRoute(IF w_habit.state[c].pending_question_json # {}
           THEN _handle_pending_question(w_habit, ctx, normalized)
           ELSE Result(w_habit, NoReply),
    LAMBDA w1 :
    IF PendingActionBlocks(w1.state[c], folded)
    THEN Result(w1, <<"Tenes un plan pendiente. Escribi confirmo o cancelar.">>)
    ELSE IF _parse_list_request(normalized, ctx.t) # {}
    THEN IF ~ctx.token THEN NeedsAuth(w1, ctx, c)
         ELSE _handle_list_request(w1, ctx, CHOOSE r \in _parse_list_request(normalized, ctx.t) : TRUE)
    ELSE
    ElseRoute(_handle_memory_request(w1, ctx, normalized, folded, extract_tags(normalized),
                                  _parse_schedule_request(normalized, ctx.t)),
    LAMBDA w2 :
    LET schedule_request == LocationFromMemory(w1, folded, extract_tags(normalized),
                                               _parse_schedule_request(normalized, ctx.t))
    IN
    IF schedule_request # {}
    THEN LET request == CHOOSE r \in schedule_request : TRUE IN
         IF request.start_dt # {} /\ request.duration_minutes # {} /\ ~ctx.token
         THEN NeedsAuth(w2, ctx, c)
         ELSE _handle_schedule_request(w2, ctx, request, c)
    ELSE
    ElseRoute(_handle_llm_planner(w2, ctx, normalized),
    LAMBDA w3 :
    OrReply(_maybe_ask_request(w3, ctx, normalized), <<"Recibi tu mensaje">>)))))))))

----------------------------------------------------------------------------
(* The webhook: a message of the user's own chat (or of any chat while no  *)
(* user chat is known) goes to handle_incoming_message, and the reply is   *)
(* stored as an outbound message.                                          *)

MaxCreateCalls == 2
MaxRules == 2
MaxMessages == 3
DurationPromptThreshold == 3

_resolve_user_chat_id(env, fs) ==
    IF env # NoChat THEN env
    ELSE IF fs["user_chat_id"].confidence >= 70 THEN fs["user_chat_id"].value
    ELSE NoChat

World ==
    [state |-> state, requests |-> requests, facts |-> facts, rules |-> rules,
     config |-> config, calendar |-> calendar, create_calls |-> create_calls,
     message_sends |-> message_sends, tool_runs |-> <<>>,
     habit_logs |-> habit_logs, habit_nudges |-> habit_nudges, what_works |-> what_works,
     threads |-> threads]

Context(chat_id, cal, send_ok) ==
    [chat_id |-> chat_id, t |-> now, token |-> has_token, env |-> env_chat,
     prompts |-> duration_prompts[chat_id], cal |-> cal, send_ok |-> send_ok]

(* What the calendar API and the transport would answer is an input of    *)
(* the handling only when the handler calls them.                          *)
CalendarInputs(chat_id, text) ==
    IF handle_incoming_message(World, Context(chat_id, "ok", TRUE), text)
         = handle_incoming_message(World, Context(chat_id, "error", TRUE), text)
    THEN {"ok"} ELSE CalendarOutcomes

TransportInputs(chat_id, text) ==
    IF handle_incoming_message(World, Context(chat_id, "ok", TRUE), text)
         = handle_incoming_message(World, Context(chat_id, "ok", FALSE), text)
    THEN {TRUE} ELSE BOOLEAN

WebhookHandling(chat_id, text, cal, send_ok) ==
    LET user_chat_id == _resolve_user_chat_id(env_chat, facts)
        is_contact_message == user_chat_id # NoChat /\ chat_id # user_chat_id
    IN \E agent_result \in {handle_incoming_message(World, Context(chat_id, cal, send_ok),
                                                     text)} :
       LET after == agent_result.w IN
       /\ ~is_contact_message
       /\ inbound_count < MaxMessages
       /\ after.create_calls <= MaxCreateCalls
       /\ Len(after.rules) <= MaxRules
       /\ inbound_count' = inbound_count + 1
       /\ state' = after.state
       /\ requests' = after.requests
       /\ facts' = after.facts
       /\ rules' = after.rules
       /\ config' = after.config
       /\ calendar' = after.calendar
       /\ create_calls' = after.create_calls
       /\ message_sends' = after.message_sends
       /\ habit_logs' = after.habit_logs
       /\ threads' = after.threads
       /\ what_works' = after.what_works
       /\ duration_prompts' =
            IF agent_result.reply # NoReply /\ agent_result.reply[1] = "Cuanto dura? 30/60/90"
            THEN [duration_prompts EXCEPT ![chat_id] = Min(@ + 1, DurationPromptThreshold)]
            ELSE duration_prompts
       /\ last' = [chat |-> chat_id, text |-> text, reply |-> agent_result.reply,
                   raised |-> agent_result.raised, cal |-> cal,
                   before |-> state[chat_id],
                   active |-> get_active_request(requests, chat_id),
                   create_calls |-> create_calls,
                   message_sends |-> message_sends,
                   tool_runs |-> after.tool_runs]
       /\ UNCHANGED <<now, has_token, env_chat>>
       /\ UNCHANGED <<events, send_attempts, habit_nudges, tick_out>>

(* the endpoint as the chat model uses it: nothing else is observed *)
waha_webhook(chat_id, text, cal, send_ok) ==
    /\ WebhookHandling(chat_id, text, cal, send_ok)
    /\ UNCHANGED probe_vars

HandleMessage ==
    \E chat_id \in Chats : \E text \in Texts :
        \E cal \in CalendarInputs(chat_id, text) : \E send_ok \in TransportInputs(chat_id, text) :
            waha_webhook(chat_id, text, cal, send_ok)

(* Conversation rows a chat can start from: none, or a plan the planner   *)
(* stored from the model's output (core.py 1301-1318), whose start and    *)
(* end are whatever strings the model produced.                           *)
SeedStates ==
    {NewState,
     ConversationState({[type |-> "message_send",
                         payload |-> [chat_id |-> {"ana@c.us"}, text |-> {"hola"},
                                      thread_id |-> {}]]}, {}, "llm_plan"),
     ConversationState({CalendarCreate("reunion", {BadIso}, {BadIso}, {})}, {}, "llm_plan"),
     ConversationState({CalendarCreate("reunion", {isoformat(Instants[5])},
                                       {isoformat(Instants[5] + 60)}, {})}, {}, "llm_plan")}

(* An event already in the calendar: tomorrow from 16:00 to 17:00 *)
BusySlot(t) ==
    [start |-> (DayOf(t) + 1) * MinutesPerDay + 16 * 60,
     end |-> (DayOf(t) + 1) * MinutesPerDay + 17 * 60]

Init ==
    /\ now = Instants[2]
    /\ config = NoConfig
    /\ env_chat = NoChat
    /\ TickVarsInit
    /\ ProbeVarsInit
    /\ \E seed \in SeedStates : state = [c \in Chats |-> IF c = "user@c.us" THEN seed ELSE NewState]
    /\ requests = [c \in Chats |-> [k \in ReqKeys |-> NoRequest]]
    /\ has_token \in BOOLEAN
    /\ calendar \in {{}, {BusySlot(now)}}
    /\ duration_prompts = [c \in Chats |-> 0]
    /\ create_calls = 0
    /\ message_sends = 0
    /\ inbound_count = 0
    /\ habit_logs = <<>>
    /\ threads = <<>>
    /\ last = NoLast

Next == HandleMessage

Spec == Init /\ [][Next]_vars

----------------------------------------------------------------------------
(* What the last handled message found and did. *)

Handled == last.chat # NoChat

CancelHandled == Handled /\ _fold_text(last.text) \in CANCEL_COMMANDS

ConfirmHandled == Handled /\ _fold_text(last.text) \in CONFIRM_COMMANDS

(* a pending calendar_create whose start and end parse *)
ConfirmablePlan(st) ==
    \E a \in st.pending_action_json :
        /\ a.type = "calendar_create"
        /\ _parse_iso_datetime(a.payload.start) # {}
        /\ _parse_iso_datetime(a.payload.end) # {}

(* C1: after a message whose folded text is a cancel keyword is handled,  *)
(* the chat's pending action and pending question are both null and its   *)
(* last_intent is cancel, whatever the conversation state and the         *)
(* assistant requests were before.                                        *)
C1_CancelClearsPending ==
    CancelHandled => state[last.chat] = ConversationState({}, {}, "cancel")

(* A cancel was handled in a chat that had a pending action, a pending    *)
(* question and a request the assistant had asked and not yet got         *)
(* answered; the request is still outstanding afterwards.                 *)
C1_Witness ==
    /\ CancelHandled
    /\ last.before.pending_action_json # {}
    /\ last.before.pending_question_json # {}
    /\ last.active # {}
    /\ get_active_request(requests, last.chat) = last.active
    /\ state[last.chat] = ConversationState({}, {}, "cancel")

(* C2: a confirm keyword handled for a chat whose pending calendar_create *)
(* has a parsable start and end, with the calendar authorized and the     *)
(* create call succeeding, calls create_event exactly once, leaves both   *)
(* pending slots null and replies 'Listo, evento creado.'; a confirm      *)
(* keyword handled for a chat with no pending action calls create_event   *)
(* not at all.                                                            *)
C2_ConfirmCreatesOnce ==
    /\ (ConfirmHandled /\ ConfirmablePlan(last.before) /\ has_token /\ last.cal = "ok")
          => /\ create_calls = last.create_calls + 1
             /\ state[last.chat].pending_action_json = {}
             /\ state[last.chat].pending_question_json = {}
             /\ last.reply # NoReply
             /\ last.reply[1] = "Listo, evento creado."
    /\ (ConfirmHandled /\ last.before.pending_action_json = {})
          => create_calls = last.create_calls

(* A further confirm was handled after a confirm had created the event:   *)
(* the chat was left by the successful confirm (last_intent               *)
(* calendar_execute, no pending action), and the count of create calls    *)
(* did not move.                                                          *)
C2_Witness ==
    /\ ConfirmHandled
    /\ last.before = ConversationState({}, {}, "calendar_execute")
    /\ create_calls = 1
    /\ last.create_calls = 1
    /\ Cardinality(calendar) >= 1

(* a schedule request with a date and a time and no duration *)
ScheduleWithoutDuration(text) ==
    /\ _parse_schedule_request(text, now) # {}
    /\ \A r \in _parse_schedule_request(text, now) :
          r.start_dt # {} /\ r.duration_minutes = {}

(* C10: a scheduling request with a date and a time and no duration,      *)
(* handled for a chat with no pending action and no pending question      *)
(* (and no asked request waiting for its answer, which the order of       *)
(* processing lets capture the message), leaves a pending question of     *)
(* type duration_minutes carrying the parsed start and the title, no      *)
(* pending action, and the reply asks 'Cuanto dura'.                      *)
C10_AsksDuration ==
    (/\ Handled
     /\ ScheduleWithoutDuration(last.text)
     /\ last.before.pending_action_json = {}
     /\ last.before.pending_question_json = {}
     /\ last.active = {})
    => /\ \E q \in state[last.chat].pending_question_json :
             /\ q.type = "duration_minutes"
             /\ q.start_dt = {isoformat(s) : s \in _parse_datetime(last.text, now)}
             /\ q.title = _extract_title(last.text)
       /\ state[last.chat].pending_action_json = {}
       /\ last.reply # NoReply
       /\ last.reply[1] = "Cuanto dura? 30/60/90"

(* A tool_runs row that carries the audit trail of an execution *)
Audited(run) ==
    /\ run.decision_source # {} /\ run.decision_source \subseteq {"supervisor", "user"}
    /\ run.requested_by # {} /\ run.requested_by \subseteq {"llm", "user", "worker"}
    /\ run.risk_level # {}
    /\ run.autonomy_mode_snapshot # {}

RunsOf(tool_name) ==
    {i \in 1..Len(last.tool_runs) : last.tool_runs[i].tool_name = tool_name}

(* a confirmed message_send is logged by the core as decided by the user *)
C21_SendsAudited ==
    (Handled /\ message_sends > last.message_sends)
    => /\ RunsOf("message.send") # {}
       /\ \A i \in RunsOf("message.send") : Audited(last.tool_runs[i])

(* a confirmed calendar_create is logged with its audit trail *)
C21_CreatesAudited ==
    (Handled /\ create_calls > last.create_calls)
    => /\ RunsOf("calendar.create_event") # {}
       /\ \A i \in RunsOf("calendar.create_event") : Audited(last.tool_runs[i])

(* C21: every tool execution of the core (a confirmed calendar_create and *)
(* a confirmed message_send alike) has committed, when the handling ends,  *)
(* a ToolRun row with tool name, status, payloads, decision_source in     *)
(* {supervisor, user}, requested_by in {llm, user, worker}, the risk      *)
(* level and the autonomy snapshot.                                        *)
C21_ExecutionsAudited == C21_SendsAudited /\ C21_CreatesAudited

(* The last message was a complete scheduling request that reached the    *)
(* schedule handler, or the confirmation of a pending calendar_create      *)
(* whose dates parse.                                                      *)
CompleteRequestHandled ==
    /\ last # NoLast /\ last.chat = "user@c.us"
    /\ last.text = "agendame corte manana 16 por 30 min"
    /\ last.before.pending_action_json = {} /\ last.before.pending_question_json = {}
    /\ last.active = {}

CalendarCreateConfirmed ==
    /\ last # NoLast /\ last.chat = "user@c.us"
    /\ last.text \in CONFIRM_COMMANDS
    /\ \E pending \in last.before.pending_action_json :
          /\ pending.type = "calendar_create"
          /\ _parse_iso_datetime(pending.payload.start) # {}
          /\ _parse_iso_datetime(pending.payload.end) # {}

(* what C29 promises of the last message *)
AuthNeededOutcome ==
    /\ ~last.raised
    /\ last.reply \in {_auth_message, <<RequestPrompt("calendar_auth")>>}
    /\ requests["user@c.us"]["calendar_auth"].status \in {"open", "asked", "dismissed"}
    /\ state["user@c.us"].last_intent = "needs_auth"
    /\ create_calls = last.create_calls
    /\ CalendarCreateConfirmed
          => state["user@c.us"].pending_action_json = last.before.pending_action_json

(* C29: when the calendar is not authorized (no token is stored, or the    *)
(* stored token is rejected as expired) and a complete scheduling request  *)
(* is processed or a pending calendar_create is confirmed, the handler     *)
(* does not raise, replies that authorization is needed, creates or        *)
(* refreshes the authorize_calendar request, sets last_intent =            *)
(* needs_auth, calls no create_event and, on confirm, keeps the pending    *)
(* action.                                                                 *)
C29_AuthNeeded ==
    ((CompleteRequestHandled \/ CalendarCreateConfirmed)
       /\ (~has_token \/ last.cal = "not_authorized"))
      => AuthNeededOutcome

(* the part of C29 that holds: no token is stored *)
C29_AuthNeededWithoutToken ==
    ((CompleteRequestHandled \/ CalendarCreateConfirmed) /\ ~has_token) => AuthNeededOutcome

----------------------------------------------------------------------------
(* Questions and answers: the user asks for something that needs a        *)
(* question (a schedule request without a time or a duration, or into a   *)
(* busy slot; modo foco or autonomia on without hours) and then answers,  *)
(* with texts that parse and texts that do not.                           *)

AnswerTexts ==
    {"agendame corte", "agendame corte manana 16", "agendame corte manana 16 por 30 min",
     "modo foco", "autonomia on calendario", "gracias por todo", "60", "1", "si"}

Answer == \E text \in AnswerTexts : waha_webhook("user@c.us", text, "ok", TRUE)

InitResolver ==
    /\ now = Instants[2]
    /\ config = NoConfig
    /\ env_chat = NoChat
    /\ TickVarsInit
    /\ ProbeVarsInit
    /\ state = [c \in Chats |-> NewState]
    /\ requests = [c \in Chats |-> [k \in ReqKeys |-> NoRequest]]
    /\ has_token = TRUE
    /\ calendar \in {{}, {BusySlot(now)}}
    /\ duration_prompts = [c \in Chats |-> 0]
    /\ create_calls = 0
    /\ message_sends = 0
    /\ inbound_count = 0
    /\ habit_logs = <<>>
    /\ threads = <<>>
    /\ last = NoLast

NextResolver == Answer

SpecResolver == InitResolver /\ [][NextResolver]_vars

(* the routes before the pending-question resolver let the text through *)
ResolverReceives(c, text) ==
    LET folded == _fold_text(text)
        ctx == Context(c, "ok", TRUE)
    IN /\ _normalize_text(text) # {}
       /\ folded \notin CANCEL_COMMANDS
       /\ ~(state[c].pending_action_json # {} /\ folded \in CONFIRM_COMMANDS)
       /\ get_active_request(requests, c) = {}
       /\ ~Answered(_handle_focus_commands(World, ctx, folded))
       /\ ~Answered(_handle_habit_commands(World, ctx, folded))
       /\ state[c].pending_question_json # {}

(* the answer the question waits for is not in the text *)
CannotParse(question, text, t) ==
    CASE question.type \in {"duration_minutes", "focus_hours", "autonomy_hours"} ->
            _parse_int(text) = {}
      [] question.type = "start_time" -> _parse_datetime(text, t) = {}
      [] question.type = "conflict_choice" ->
            \A n \in _parse_choice(text) : n + 1 > Len(question.options)
      [] OTHER -> FALSE

QuestionText(question) ==
    CASE question.type = "duration_minutes" -> "Indica la duracion en minutos (30/60/90)."
      [] question.type = "start_time" -> "Para que dia y hora? (ej: manana 16)"
      [] question.type = "conflict_choice" -> "Responde 1 o 2."
      [] OTHER -> "Por cuantas horas?"

(* C22: when the pending-question resolver receives an answer it cannot   *)
(* parse (no positive integer for duration_minutes, focus_hours or        *)
(* autonomy_hours, no date and time for start_time, no in-range 1 or 2    *)
(* for conflict_choice), the reply asks the question again and the        *)
(* conversation row (pending question, pending action) and the autonomy   *)
(* rules are as before; this holds at every step, so for any number of    *)
(* consecutive unparsable answers.                                        *)
C22_UnparsableReasks ==
    [][\A text \in AnswerTexts : \A question \in state["user@c.us"].pending_question_json :
          (/\ inbound_count' = inbound_count + 1
           /\ last'.text = text
           /\ ResolverReceives("user@c.us", text)
           /\ CannotParse(question, text, now))
          => /\ state' = state
             /\ rules' = rules
             /\ last'.reply = <<QuestionText(question)>>]_vars

(* the third message in a row left a question about hours unanswered *)
C22_Witness ==
    /\ inbound_count = MaxMessages
    /\ last.text = "gracias por todo"
    /\ \E question \in last.before.pending_question_json : question.type = "autonomy_hours"
    /\ state[last.chat] = last.before
    /\ last.reply = <<"Por cuantas horas?">>

----------------------------------------------------------------------------
(* Requests made while a plan waits: the chat starts with or without a    *)
(* pending action and the user asks to schedule, asks for the agenda,     *)
(* confirms, or starts modo foco.                                         *)

BlockTexts ==
    {"agendame corte manana 16", "agendame corte manana 16 por 30 min", "que tengo manana",
     "modo foco", "confirmo", "gracias por todo"}

Request ==
    \E text \in BlockTexts :
        \E cal \in CalendarInputs("user@c.us", text) :
            waha_webhook("user@c.us", text, cal, TRUE)

InitBlocked ==
    /\ now = Instants[2]
    /\ config = NoConfig
    /\ env_chat = NoChat
    /\ TickVarsInit
    /\ ProbeVarsInit
    /\ \E seed \in SeedStates : state = [c \in Chats |-> IF c = "user@c.us" THEN seed ELSE NewState]
    /\ requests = [c \in Chats |-> [k \in ReqKeys |-> NoRequest]]
    /\ has_token \in BOOLEAN
    /\ calendar \in {{}, {BusySlot(now)}}
    /\ duration_prompts = [c \in Chats |-> 0]
    /\ create_calls = 0
    /\ message_sends = 0
    /\ inbound_count = 0
    /\ habit_logs = <<>>
    /\ threads = <<>>
    /\ last = NoLast

NextBlocked == Request

SpecBlocked == InitBlocked /\ [][NextBlocked]_vars

(* a schedule request or a list request *)
IsNewRequest(text) ==
    HasAgend(_fold_text(text)) \/ _parse_list_request(text, now) # {}

BlockedReply == <<"Tenes un plan pendiente. Escribi confirmo o cancelar.">>

(* the step handles text for the user chat and blocks it *)
Blocked(text) ==
    (inbound_count' = inbound_count + 1 /\ last'.text = text)
    => /\ last'.reply = BlockedReply
       /\ state' = state
       /\ calendar' = calendar
       /\ create_calls' = create_calls

(* C23 as stated: while the chat has a pending action, a schedule request *)
(* or a list request is answered with the confirm-or-cancel message and   *)
(* changes nothing of the conversation row.                               *)
C23_PendingBlocksRequests ==
    [][\A text \in BlockTexts :
          (state["user@c.us"].pending_action_json # {} /\ IsNewRequest(text))
          => Blocked(text)]_vars

(* C23, amended: while the chat has a pending action, no pending question *)
(* and no asked assistant request waiting for its answer, a schedule      *)
(* request or a list request is answered with the confirm-or-cancel       *)
(* message, starts no question, creates no second plan and leaves the     *)
(* pending action as it was.                                              *)
C23_PendingBlocksUnlessCaptured ==
    [][\A text \in BlockTexts :
          (/\ state["user@c.us"].pending_action_json # {}
           /\ state["user@c.us"].pending_question_json = {}
           /\ get_active_request(requests, "user@c.us") = {}
           /\ IsNewRequest(text))
          => Blocked(text)]_vars

(* a list request was blocked by the plan that still waits *)
C23_Witness ==
    /\ Handled
    /\ last.text = "que tengo manana"
    /\ last.reply = BlockedReply
    /\ last.before.pending_action_json # {}
    /\ state[last.chat] = last.before

----------------------------------------------------------------------------
(* The user's commands and the worker's ticks: the user chat is known     *)
(* (USER_CHAT_ID), the user sends commands that write autonomy rules, the *)
(* worker ticks; it is noon.                                               *)

Command ==
    /\ \E text \in CommandTexts : waha_webhook("user@c.us", text, "ok", TRUE)

InitFocus ==
    /\ now = Instants[2]
    /\ config = NoConfig
    /\ env_chat = "user@c.us"
    /\ TickVarsInit
    /\ ProbeVarsInit
    /\ ChatVarsInit

NextFocus == Command \/ Tick

SpecFocus == InitFocus /\ [][NextFocus]_vars

FocusEffective ==
    EffectiveRule(rules, "global", now, Len(rules)).mode \in {"focus", "urgencies_only"}

HabitsOff == EffectiveRule(rules, "habits", now, Len(rules)).mode = "off"

(* the rows a step appends to proactive_events *)
NewRows == {events'[i] : i \in (Len(events) + 1)..Len(events')}

BelowUrgent(row) == row.score < _get_or_create_config(config).urgent_threshold

OutsideQuietHours == ~_in_quiet_hours(TimeOf(now), _get_or_create_config(config))

FocusDigested(row) ==
    /\ row.decision = "digested"
    /\ OutsideQuietHours => row.reason = "autonomy_mode"

(* C8 as stated: while a focus or urgencies_only rule is the effective    *)
(* global mode, every candidate below the urgent threshold that a tick    *)
(* records is recorded 'digested', with reason autonomy_mode outside      *)
(* quiet hours.                                                           *)
C8_FocusDigestsAll ==
    [][FocusEffective => \A row \in NewRows : BelowUrgent(row) => FocusDigested(row)]_vars

(* C8, amended: while a focus or urgencies_only rule is the effective     *)
(* global mode, every candidate below the urgent threshold that a tick    *)
(* records is recorded 'digested' (reason autonomy_mode outside quiet     *)
(* hours), except a habit candidate while a habits rule is off, which is  *)
(* recorded 'suppressed' with reason habits_off; no such candidate is     *)
(* sent.                                                                  *)
C8_FocusDigestsUnlessHabitsOff ==
    [][FocusEffective =>
          \A row \in NewRows : BelowUrgent(row) =>
              IF IsHabit(row.trigger_type) /\ HabitsOff
              THEN row.decision = "suppressed" /\ row.reason = "habits_off"
              ELSE FocusDigested(row)]_vars

(* A focus or urgencies_only rule written by a command is in force and    *)
(* the tick of this instant recorded the calendar candidate of score 70   *)
(* as digested with reason autonomy_mode.                                 *)
C8_Witness ==
    /\ FocusEffective
    /\ state["user@c.us"].last_intent \in {"focus_mode", "urgencies_only"}
    /\ \E i \in 1..Len(events) :
          /\ events[i].created_at = now
          /\ events[i].score = 70
          /\ BelowUrgent(events[i])
          /\ events[i].decision = "digested"
          /\ events[i].reason = "autonomy_mode"

----------------------------------------------------------------------------
(* Habits silenced for the day: the user may send 'no me jodas con        *)
(* habitos hoy', the worker ticks over an upcoming event, a habit whose    *)
(* window closes and a habit of urgent score, and the next day comes.      *)
(* The transport delivers every message.                                   *)

HabitsUniverse(t) ==
    {c \in Universe(t) : c.entity_id # "evt2"} \cup {UrgentHabit(t)}

(* each candidate at most once; the scores differ, so the sort makes the  *)
(* order the generators found them in irrelevant                           *)
HabitCandidateLists(t) ==
    {raw \in UNION {[1..n -> HabitsUniverse(t)] : n \in 0..Cardinality(HabitsUniverse(t))} :
        \A i, j \in 1..Len(raw) : i < j => raw[i].score > raw[j].score}

SilenceHabits == waha_webhook("user@c.us", "no me jodas con habitos hoy", "ok", TRUE)

TickHabits ==
    /\ \E raw \in HabitCandidateLists(now) : run_proactive_tick(raw, 1..Len(raw))
    /\ UNCHANGED <<now, rules, env_chat, facts>>
    /\ UNCHANGED probe_vars
    /\ UNCHANGED chat_vars

(* from noon to noon of the next day *)
NextDay ==
    /\ now = Instants[2]
    /\ now' = now + MinutesPerDay
    /\ UNCHANGED tick_vars
    /\ UNCHANGED probe_vars
    /\ UNCHANGED chat_vars

NextHabitsOff == SilenceHabits \/ TickHabits \/ NextDay

SpecHabitsOff == InitFocus /\ [][NextHabitsOff]_vars

HabitKeys == {k \in AllKeys : k.kind = "habit"}

HabitsSuppressed(row) ==
    row.decision = "suppressed" /\ row.reason = "habits_off" /\ row.sent_at = NoTime

(* C24: while the effective habits-scope rule is off, every habit         *)
(* candidate a tick records is 'suppressed' with reason habits_off, also  *)
(* at or above the urgent threshold, and no habit nudge is sent or        *)
(* counted; the rows of the other candidates never carry habits_off.     *)
C24_HabitsOffSuppresses ==
    [][HabitsOff =>
         /\ \A row \in NewRows :
               IF IsHabit(row.trigger_type) THEN HabitsSuppressed(row)
               ELSE row.reason # "habits_off"
         /\ \A k \in HabitKeys : send_attempts'[k] = send_attempts[k]
         /\ what_works' = what_works]_vars

(* in one tick the urgent habit was suppressed and the event was sent *)
C24_Witness ==
    /\ HabitsOff
    /\ \E i, j \in 1..Len(events) :
          /\ events[i].created_at = now /\ events[j].created_at = now
          /\ events[i].trigger_type = "habit_streak_risk"
          /\ ~BelowUrgent(events[i])
          /\ HabitsSuppressed(events[i])
          /\ events[j].trigger_type = "calendar_upcoming"
          /\ events[j].decision = "sent"

----------------------------------------------------------------------------
(* NudgeStrategySelector.select (packages/habits/selector.py), called on   *)
(* a coaching profile (intensity, what_works), a habit and the habit's     *)
(* last nudge.                                                             *)

ALLOWED_BY_INTENSITY(intensity) ==
    CASE intensity = "low" -> <<"micro_action", "frictionless">>
      [] intensity = "high" -> <<"micro_action", "frictionless", "reframe", "contract", "humor">>
      [] OTHER -> <<"micro_action", "frictionless", "reframe">>

WithoutLast_kept(allowed, last_strategy) == allowed

(* allowed.remove(last_strategy) when it is allowed and not the only one *)
WithoutLast(allowed, last_strategy) ==
    IF (\E i \in 1..Len(allowed) : allowed[i] \in last_strategy) /\ Len(allowed) > 1
    THEN SelectSeq(allowed, LAMBDA strategy : strategy \notin last_strategy)
    ELSE allowed

(* success_rate = done / max(sent, 1), compared with 0.6 and 0.3 *)
_adjust_for_what_works(ww, strategy) ==
    LET sent == ww[strategy].sent
        done == ww[strategy].done_after
    IN IF sent < 3 THEN 0
       ELSE IF 10 * done >= 6 * sent THEN 5
       ELSE IF 10 * done <= 3 * sent THEN 0 - 5
       ELSE 0

Max(a, b) == IF a >= b THEN a ELSE b

StrategyChoice(strategy, score) == [strategy |-> strategy, score |-> score]

(* "for strategy in allowed[1:]: if score > best_score" *)
RECURSIVE BestOf(_, _, _, _, _)
BestOf(allowed, i, base_score, ww, best) ==
    IF i > Len(allowed) THEN best
    ELSE LET score == base_score + _adjust_for_what_works(ww, allowed[i])
         IN BestOf(allowed, i + 1, base_score, ww,
                   IF score > best.score THEN StrategyChoice(allowed[i], score) ELSE best)

(* last_nudge is the set of at most one habit_nudges row *)
select(profile, habit, last_nudge) ==
    LET allowed == WithoutLast(ALLOWED_BY_INTENSITY(profile.intensity),
                               {n.strategy : n \in last_nudge})
        base_score == 50 + Max(1, Min(habit.priority, 5)) * 5
        first == StrategyChoice(allowed[1],
                                base_score + _adjust_for_what_works(profile.what_works, allowed[1]))
        best == BestOf(allowed, 2, base_score, profile.what_works, first)
    IN StrategyChoice(best.strategy, Max(40, Min(95, best.score)))

Intensities == {"low", "medium", "high"}

(* sent < 3; a success rate of 0.6; a success rate of 0.3 *)
StrategyStats ==
    {[sent |-> 2, done_after |-> 2], [sent |-> 5, done_after |-> 3],
     [sent |-> 10, done_after |-> 3]}

Priorities == {0, 3, 5, 9}

CallSelect ==
    /\ habit_call.set /\ habit_call.choice = {}
    /\ habit_call' = [habit_call EXCEPT
                        !.choice = {select([intensity |-> habit_call.intensity,
                                            what_works |-> what_works],
                                           [priority |-> habit_call.priority],
                                           habit_call.last_nudge)}]
    /\ UNCHANGED <<now, tick_vars, chat_vars>>
    /\ UNCHANGED <<d_in, d_out, sup_in, sup_out, autonomy_out, digest_vars, runtime_vars>>

InitSelector ==
    /\ now = Instants[2]
    /\ config = NoConfig
    /\ env_chat = NoChat
    /\ rules = <<>>
    /\ events = <<>>
    /\ send_attempts = [k \in AllKeys |-> 0]
    /\ habit_nudges = <<>>
    /\ what_works \in [Strategies -> StrategyStats]
    /\ facts = [k \in FactKeys |-> NoFact]
    /\ tick_out = NoTick
    /\ d_in = NoProbe /\ d_out = NoProbe
    /\ sup_in = NoProbe /\ sup_out = NoProbe
    /\ autonomy_out = NoProbe
    /\ DigestVarsInit
    /\ RuntimeVarsInit
    /\ ChatVarsInit
    /\ \E intensity \in Intensities : \E priority \in Priorities :
          \E last_nudge \in {{}} \cup {{[strategy |-> strategy]} : strategy \in Strategies} :
             habit_call = [set |-> TRUE, intensity |-> intensity, priority |-> priority,
                           last_nudge |-> last_nudge, choice |-> {}]

NextSelector == CallSelect

SpecSelector == InitSelector /\ [][NextSelector]_vars

(* the tiers as sets, in the order the selector tries them *)
TierOrder == <<"micro_action", "frictionless", "reframe", "contract", "humor">>

TierSize(intensity) ==
    CASE intensity = "low" -> 2 [] intensity = "medium" -> 3 [] intensity = "high" -> 5

Tier(intensity) == {TierOrder[i] : i \in 1..TierSize(intensity)}

PositionOf(strategy) == CHOOSE i \in 1..Len(TierOrder) : TierOrder[i] = strategy

ScoreOf(strategy) ==
    50 + Max(1, Min(habit_call.priority, 5)) * 5 + _adjust_for_what_works(what_works, strategy)

(* the strategies the selector may return for this call *)
Eligible ==
    {strategy \in Tier(habit_call.intensity) :
        \A n \in habit_call.last_nudge : n.strategy # strategy}

(* C25: select returns a strategy of the tier of the profile's intensity  *)
(* (low: micro_action, frictionless; medium adds reframe; high adds       *)
(* contract and humor), never the strategy of the habit's previous nudge  *)
(* (every tier allows more than one), with the best score among the       *)
(* eligible ones and, among equal scores, the first in tier order.        *)
C25_SelectorChoice ==
    (habit_call.set /\ habit_call.choice # {}) =>
       \A choice \in habit_call.choice :
          /\ choice.strategy \in Tier(habit_call.intensity)
          /\ \A n \in habit_call.last_nudge : choice.strategy # n.strategy
          /\ \A other \in Eligible :
                \/ ScoreOf(other) < ScoreOf(choice.strategy)
                \/ /\ ScoreOf(other) = ScoreOf(choice.strategy)
                   /\ PositionOf(choice.strategy) <= PositionOf(other)

(* the previous strategy scored best and another one was returned; two    *)
(* eligible strategies tied and the earlier one won                        *)
C25_Witness ==
    /\ habit_call.set
    /\ \E choice \in habit_call.choice : \E n \in habit_call.last_nudge :
          /\ n.strategy \in Tier(habit_call.intensity)
          /\ ScoreOf(n.strategy) > ScoreOf(choice.strategy)
          /\ \E other \in Eligible \ {choice.strategy} :
                ScoreOf(other) = ScoreOf(choice.strategy)

----------------------------------------------------------------------------
(* Habit logging: HabitEngine.log_done / log_skip / log_partial called     *)
(* directly and through the commands "hecho <habito>" and                  *)
(* "no hoy <habito>", on two days.                                         *)

MaxDoneAfter == 2

HabitTexts == {"hecho correr", "no hoy correr", "no hoy r"}

HabitCommand == \E text \in HabitTexts : waha_webhook("user@c.us", text, "ok", TRUE)

HabitIds == {HabitRows[i].id : i \in 1..Len(HabitRows)}

Statuses == {STATUS_DONE, STATUS_SKIPPED, STATUS_PARTIAL}

LogCall ==
    \E habit_id \in HabitIds : \E status \in Statuses :
       LET after == CASE status = STATUS_DONE -> log_done(World, habit_id, now, {})
                      [] status = STATUS_SKIPPED -> log_skip(World, habit_id, now, {})
                      [] status = STATUS_PARTIAL -> log_partial(World, habit_id, now, {})
       IN /\ \A strategy \in Strategies : after.what_works[strategy].done_after <= MaxDoneAfter
          /\ habit_logs' = after.habit_logs
          /\ what_works' = after.what_works
          /\ habit_call' = [set |-> TRUE, habit_id |-> habit_id, status |-> status,
                            date |-> DayOf(now)]
          /\ UNCHANGED <<now, config, rules, events, send_attempts, habit_nudges, env_chat,
                         facts, tick_out, threads>>
          /\ UNCHANGED <<state, requests, has_token, calendar, duration_prompts, create_calls,
                         message_sends, inbound_count, last>>
          /\ UNCHANGED <<d_in, d_out, sup_in, sup_out, autonomy_out, digest_vars, runtime_vars>>

(* the tick sent a nudge for the first habit this morning *)
InitHabitLog ==
    /\ now = Instants[2]
    /\ config = NoConfig
    /\ env_chat = NoChat
    /\ rules = <<>>
    /\ events = <<>>
    /\ send_attempts = [k \in AllKeys |-> 0]
    /\ habit_nudges = <<[habit_id |-> "1", ts |-> Instants[1],
                         strategy |-> "reframe", decision |-> "sent"]>>
    /\ what_works = [s \in Strategies |->
                       [sent |-> IF s = "reframe" THEN 1 ELSE 0, done_after |-> 0]]
    /\ facts = [k \in FactKeys |-> NoFact]
    /\ tick_out = NoTick
    /\ ProbeVarsInit
    /\ ChatVarsInit

NextHabitLog == HabitCommand \/ LogCall \/ NextDay

SpecHabitLog == InitHabitLog /\ [][NextHabitLog]_vars

(* the habit and the status a command logs *)
CommandLogs ==
    {[text |-> "hecho correr", habit_id |-> "1", status |-> "done"],
     [text |-> "hecho leer", habit_id |-> "2", status |-> "done"],
     [text |-> "no hoy correr", habit_id |-> "1", status |-> "skipped"]}

(* this step logs the status for the habit on the day: a direct call, or   *)
(* a command of the user                                                   *)
Logs(habit_id, date, status) ==
    \/ /\ inbound_count' = inbound_count /\ now' = now
       /\ habit_call'.set
       /\ habit_call'.habit_id = habit_id
       /\ habit_call'.date = date
       /\ habit_call'.status = status
    \/ /\ inbound_count' = inbound_count + 1
       /\ date = DayOf(now)
       /\ [text |-> last'.text, habit_id |-> habit_id, status |-> status] \in CommandLogs

StatusesOf(logs, habit_id, date) ==
    {logs[i].status : i \in LogRows(logs, habit_id, date)}

(* C26: after every log_done / log_skip / log_partial call and every       *)
(* "hecho ..." / "no hoy ..." command there is at most one habit_logs row  *)
(* per habit and calendar day; the row of the habit and day of the call    *)
(* has the status of that call, and the rows of the other habits and days  *)
(* keep theirs, so each row shows the most recent call for it.             *)
C26_OneLogPerHabitDay ==
    [][\A habit_id \in HabitIds : \A date \in Days :
          /\ Cardinality(LogRows(habit_logs', habit_id, date)) <= 1
          /\ \A status \in Statuses :
                Logs(habit_id, date, status)
                   => StatusesOf(habit_logs', habit_id, date) = {status}
          /\ (~ \E status \in Statuses : Logs(habit_id, date, status))
                => StatusesOf(habit_logs', habit_id, date)
                     = StatusesOf(habit_logs, habit_id, date)]_vars

(* the first habit was logged done by a direct call and then turned to     *)
(* skipped by "no hoy correr" on the same day, next to yesterday's row     *)
C26_Witness ==
    /\ now = Instants[2] + MinutesPerDay
    /\ last # NoLast /\ last.text = "no hoy correr"
    /\ habit_call.set /\ habit_call.habit_id = "1" /\ habit_call.status = STATUS_DONE
    /\ habit_call.date = 1
    /\ StatusesOf(habit_logs, "1", 1) = {STATUS_SKIPPED}
    /\ StatusesOf(habit_logs, "1", 0) = {STATUS_PARTIAL}
    /\ Len(habit_logs) = 2

----------------------------------------------------------------------------
(* _habit_candidates (apps/worker/app/proactive.py): the habit generator   *)
(* of the tick, over the habits table, habit_logs and habit_nudges.        *)

HABIT_WINDOW_GRACE_MINUTES == 60
HABIT_STREAK_DAYS == 2
HABIT_PRIORITY_HIGH == 4

Habit(id, priority, schedule_type, target_per_week, days_of_week, window_start, window_end, active) ==
    [id |-> id, priority |-> priority, schedule_type |-> schedule_type,
     target_per_week |-> target_per_week, days_of_week |-> days_of_week,
     window_start |-> window_start, window_end |-> window_end, active |-> active]

(* date.weekday(), Monday is 0; day 0 is a Friday *)
weekday(day) == (day + 4) % 7

(* done and partial logs of the habit in the week (Monday to Sunday) of the day *)
DoneInWeek(logs, habit_id, day) ==
    LET week_start == day - weekday(day)
    IN Cardinality({i \in 1..Len(logs) :
                       /\ logs[i].habit_id = habit_id
                       /\ logs[i].date >= week_start /\ logs[i].date < week_start + 7
                       /\ logs[i].status \in SUCCESS_STATUSES})

is_due_today(logs, habit, t) ==
    CASE habit.schedule_type = "daily" -> TRUE
      [] habit.schedule_type = "scheduled" ->
            habit.days_of_week = {} \/ weekday(DayOf(t)) \in habit.days_of_week
      [] habit.schedule_type = "weekly" ->
            habit.target_per_week = {}
            \/ \A target \in habit.target_per_week :
                  DoneInWeek(logs, habit.id, DayOf(t)) < target
      [] OTHER -> FALSE

habit_status_today(logs, habit_id, today) == LogRows(logs, habit_id, today) # {}

(* the date of the newest done or partial log, or none *)
_last_done_date(logs, habit_id) ==
    LET dates == {logs[i].date : i \in {j \in 1..Len(logs) :
                                          /\ logs[j].habit_id = habit_id
                                          /\ logs[j].status \in SUCCESS_STATUSES}}
    IN {d \in dates : \A other \in dates : other <= d}

_weekly_target_in_risk(logs, habit, t) ==
    LET remaining_days == 7 - weekday(DayOf(t))
    IN \E target \in habit.target_per_week :
          target > DoneInWeek(logs, habit.id, DayOf(t)) + Max(0, remaining_days)

_window_closing_never(habit, t) == FALSE

_window_closing(habit, t) ==
    IF TimeOf(t) < habit.window_start \/ TimeOf(t) > habit.window_end THEN FALSE
    ELSE habit.window_end - TimeOf(t) <= HABIT_WINDOW_GRACE_MINUTES

NoTrigger == [trigger_type |-> "", bonus |-> 0]

_habit_trigger(logs, habit, t) ==
    LET last_done == _last_done_date(logs, habit.id)
    IN IF /\ habit.priority >= HABIT_PRIORITY_HIGH
          /\ \A d \in last_done : DayOf(t) - d >= HABIT_STREAK_DAYS
       THEN [trigger_type |-> "habit_streak_risk", bonus |-> 10]
       ELSE IF /\ habit.schedule_type = "weekly"
               /\ habit.target_per_week \notin {{}, {0}}
               /\ _weekly_target_in_risk(logs, habit, t)
       THEN [trigger_type |-> "habit_weekly_risk", bonus |-> 5]
       ELSE IF _window_closing(habit, t)
       THEN [trigger_type |-> "habit_window", bonus |-> 0]
       ELSE NoTrigger

(* the newest habit_nudges row of the habit, or none *)
LastNudge(nudges, habit_id) ==
    LET own == {i \in 1..Len(nudges) : nudges[i].habit_id = habit_id}
    IN {nudges[i] : i \in {j \in own : \A k \in own :
                                nudges[k].ts < nudges[j].ts
                                \/ (nudges[k].ts = nudges[j].ts /\ k >= j)}}

RECURSIVE HabitLoop(_, _, _, _, _, _)
HabitLoop(habits, i, logs, nudges, profile, t) ==
    IF i > Len(habits) THEN <<>>
    ELSE LET habit == habits[i]
             rest == HabitLoop(habits, i + 1, logs, nudges, profile, t)
             trigger == _habit_trigger(logs, habit, t)
             choice == select(profile, habit, LastNudge(nudges, habit.id))
         IN IF habit_status_today(logs, habit.id, DayOf(t)) THEN rest
            ELSE IF ~is_due_today(logs, habit, t) THEN rest
            ELSE IF trigger = NoTrigger THEN rest
            ELSE <<Candidate(trigger.trigger_type, habit.id,
                             Min(95, choice.score + trigger.bonus),
                             Key("habit", habit.id, trigger.trigger_type, DayOf(t)),
                             choice.strategy)>> \o rest

(* engine.list_habits(active_only=True), then the loop *)
_habit_candidates(habits, logs, nudges, profile, t) ==
    HabitLoop(SelectSeq(habits, LAMBDA habit : habit.active), 1, logs, nudges, profile, t)

(* 11:00 to 12:30 and 11:00 to 13:00 *)
Windows == {<<660, 750>>, <<660, 780>>}

Schedules ==
    {[schedule_type |-> "daily", target_per_week |-> {}, days_of_week |-> {}],
     [schedule_type |-> "weekly", target_per_week |-> {1}, days_of_week |-> {}],
     [schedule_type |-> "weekly", target_per_week |-> {5}, days_of_week |-> {}],
     [schedule_type |-> "scheduled", target_per_week |-> {}, days_of_week |-> {4}],
     [schedule_type |-> "scheduled", target_per_week |-> {}, days_of_week |-> {0}]}

HabitConfigs(id) ==
    {Habit(id, priority, sch.schedule_type, sch.target_per_week, sch.days_of_week,
           win[1], win[2], active) :
        priority \in {3, 4}, sch \in Schedules, win \in Windows, active \in BOOLEAN}

(* what was logged for the habit before the tick: nothing, today, the day  *)
(* before, two days before                                                 *)
LogHistories(habit_id, today) ==
    {<<>>,
     <<HabitLog(habit_id, today, STATUS_DONE, {})>>,
     <<HabitLog(habit_id, today, STATUS_SKIPPED, {})>>,
     <<HabitLog(habit_id, today - 1, STATUS_DONE, {})>>,
     <<HabitLog(habit_id, today - 2, STATUS_PARTIAL, {})>>}

CallHabitCandidates ==
    /\ habit_call.set /\ habit_call.candidates = {}
    /\ habit_call' = [habit_call EXCEPT
                        !.candidates =
                           {_habit_candidates(habit_call.habits, habit_logs, habit_nudges,
                                              [intensity |-> "medium",
                                               what_works |-> what_works], now)}]
    /\ UNCHANGED <<now, tick_vars, chat_vars>>
    /\ UNCHANGED <<d_in, d_out, sup_in, sup_out, autonomy_out, digest_vars, runtime_vars>>

InitHabitCandidates ==
    /\ now \in {Instants[1], Instants[2], Instants[3]}
    /\ config = NoConfig
    /\ env_chat = NoChat
    /\ TickVarsInit
    /\ d_in = NoProbe /\ d_out = NoProbe
    /\ sup_in = NoProbe /\ sup_out = NoProbe
    /\ autonomy_out = NoProbe
    /\ DigestVarsInit
    /\ RuntimeVarsInit
    /\ state = [c \in Chats |-> NewState]
    /\ requests = [c \in Chats |-> [k \in ReqKeys |-> NoRequest]]
    /\ has_token = TRUE
    /\ calendar = {}
    /\ duration_prompts = [c \in Chats |-> 0]
    /\ create_calls = 0
    /\ message_sends = 0
    /\ inbound_count = 0
    /\ last = NoLast
    /\ threads = <<>>
    /\ \E first \in LogHistories("1", DayOf(now)) :
          \E second \in {<<>>, <<HabitLog("2", DayOf(now), STATUS_SKIPPED, {})>>} :
             habit_logs = first \o second
    /\ \E habit \in HabitConfigs("1") :
          habit_call = [set |-> TRUE,
                        habits |-> <<habit, Habit("2", 3, "daily", {}, {}, 660, 750, TRUE)>>,
                        candidates |-> {}]

NextHabitCandidates == CallHabitCandidates

SpecHabitCandidates == InitHabitCandidates /\ [][NextHabitCandidates]_vars

(* inside the window, with less than 60 minutes of it left *)
WindowUnder60(habit, t) ==
    /\ habit.window_start <= TimeOf(t) /\ TimeOf(t) <= habit.window_end
    /\ habit.window_end - TimeOf(t) < 60

CandidatesFor(habit, trigger_types) ==
    {i \in 1..Len(CHOOSE cs \in habit_call.candidates : TRUE) :
        LET c == (CHOOSE cs \in habit_call.candidates : TRUE)[i]
        IN c.entity_id = habit.id /\ c.trigger_type \in trigger_types}

Generated == habit_call.set /\ "candidates" \in DOMAIN habit_call /\ habit_call.candidates # {}

HabitsOfCall == {habit_call.habits[i] : i \in 1..Len(habit_call.habits)}

HabitTriggers == {"habit_window", "habit_streak_risk", "habit_weekly_risk"}

Qualifies(habit) ==
    /\ habit.active
    /\ is_due_today(habit_logs, habit, now)
    /\ ~habit_status_today(habit_logs, habit.id, DayOf(now))
    /\ WindowUnder60(habit, now)

StaleStreak(habit) ==
    /\ habit.priority >= 4
    /\ \A i \in 1..Len(habit_logs) :
          (habit_logs[i].habit_id = habit.id /\ habit_logs[i].status \in {"done", "partial"})
             => DayOf(now) - habit_logs[i].date >= 2

(* C27 as stated: every active habit that is due today, has no log today   *)
(* and is inside its window with less than 60 minutes left gets a          *)
(* 'habit_window' candidate whatever its priority and history; a habit     *)
(* logged today gets no candidate.                                         *)
C27_WindowCandidateAlways ==
    Generated =>
       \A habit \in HabitsOfCall :
          /\ Qualifies(habit) => CandidatesFor(habit, {"habit_window"}) # {}
          /\ habit_status_today(habit_logs, habit.id, DayOf(now))
                => CandidatesFor(habit, HabitTriggers) = {}

(* C27, amended: such a habit gets exactly one candidate, which is         *)
(* 'habit_streak_risk' for a habit of priority 4 or more with no done or   *)
(* partial log in the last two days, else 'habit_weekly_risk' for a weekly *)
(* habit whose target is at risk, else 'habit_window'; a habit logged      *)
(* today gets no candidate.                                                *)
C27_WindowCandidateByGate ==
    Generated =>
       \A habit \in HabitsOfCall :
          /\ Qualifies(habit) =>
                /\ Cardinality(CandidatesFor(habit, HabitTriggers)) = 1
                /\ CandidatesFor(habit,
                       IF StaleStreak(habit) THEN {"habit_streak_risk"}
                       ELSE IF /\ habit.schedule_type = "weekly"
                               /\ _weekly_target_in_risk(habit_logs, habit, now)
                       THEN {"habit_weekly_risk"}
                       ELSE {"habit_window"}) # {}
          /\ habit_status_today(habit_logs, habit.id, DayOf(now))
                => CandidatesFor(habit, HabitTriggers) = {}

(* at 12:00 a priority-3 habit and a priority-4 habit that was done        *)
(* yesterday both got their habit_window candidate, the second one logged  *)
(* today got none                                                          *)
C27_Witness ==
    /\ Generated
    /\ now = Instants[2]
    /\ \E habit \in HabitsOfCall :
          /\ habit.id = "1" /\ habit.priority = 4 /\ Qualifies(habit)
          /\ habit_logs # <<>> /\ habit_logs[1].date = DayOf(now) - 1
          /\ CandidatesFor(habit, {"habit_window"}) # {}
    /\ \E habit \in HabitsOfCall :
          /\ habit.id = "2" /\ habit_status_today(habit_logs, "2", DayOf(now))
          /\ CandidatesFor(habit, HabitTriggers) = {}

----------------------------------------------------------------------------
(* The readers of the autonomy rules.  Apart from _get_autonomy_mode (the  *)
(* chat handler's and the worker's) these are the planner context's        *)
(* snapshot (packages/llm/context_builder.py), the 'status autonomia'      *)
(* reply and ContactPolicy.autonomy_enabled (packages/relations/policy.py).*)

_build_autonomy_snapshot(rs, t) ==
    LET newest_global == NewestRule(rs, "global", Len(rs))
        global_rule == IF newest_global # NoRule /\ newest_global.until_at # NoTime
                          /\ newest_global.until_at < t
                       THEN NoRule ELSE newest_global
        scope_rules == [scope \in ActionScopes |->
            LET rule == NewestRule(rs, scope, Len(rs)) IN
            IF rule # NoRule /\ rule.until_at # NoTime /\ rule.until_at < t
            THEN [mode |-> "off", until_at |-> {}]
            ELSE IF rule # NoRule
            THEN [mode |-> rule.mode,
                  until_at |-> IF rule.until_at # NoTime THEN {isoformat(rule.until_at)}
                               ELSE {}]
            ELSE [mode |-> "off", until_at |-> {}]]
    IN [global |-> [mode |-> IF global_rule # NoRule THEN global_rule.mode ELSE "normal",
                    until_at |-> IF global_rule # NoRule /\ global_rule.until_at # NoTime
                                 THEN {isoformat(global_rule.until_at)} ELSE {}],
        scopes |-> scope_rules]

(* ContactPolicy.autonomy_enabled *)
autonomy_enabled(rs, scope, t) ==
    LET rule == NewestRule(rs, scope, Len(rs)) IN
    IF rule = NoRule \/ rule.mode # "on" THEN FALSE
    ELSE IF rule.until_at # NoTime THEN rule.until_at > t
    ELSE TRUE

----------------------------------------------------------------------------
(* Messages of contacts: the contact branch of the webhook,                *)
(* handle_contact_inbound and the reply it schedules, next to the user's   *)
(* confirmo / cancelar of the reply drafts.                                *)

MaxThreads == 2
MaxSends == 2

Contacts == {"ana@c.us"}

ContactTexts == {"gracias", "me pasas el precio?", "hola"}

(* the name WhatsApp shows for the sender *)
DisplayNames == {"Ana", "Ana?"}

(* MessageSafetyClassifier.classify, no privacy rule stored, for texts     *)
(* without sensitive words                                                 *)
classify(text) ==
    LET closing == text \in {"ok", "gracias", "listo", "ok gracias", "joya"}
        contains_question == HasQuestionMark(text)
        operational == text \in {"me pasas el precio?",
                                 "Ana, gracias por consultar. Te paso el precio en breve.",
                                 "Ana?, gracias por consultar. Te paso el precio en breve."}
    IN [category |-> IF operational THEN "operational" ELSE "neutral",
        operational |-> operational,
        requires_response |-> ~closing /\ contains_question,
        closing |-> closing,
        contains_question |-> contains_question]

_inbound_kind(safety, thread) ==
    IF safety.closing THEN "closing"
    ELSE IF safety.contains_question THEN "question"
    ELSE IF thread.status = "waiting_them" THEN "answer"
    ELSE "info"

(* f"{name}, gracias por consultar. Te paso el precio en breve." *)
build_reply_draft(incoming_text, contact_name) ==
    IF contact_name = "Ana?"
    THEN "Ana?, gracias por consultar. Te paso el precio en breve."
    ELSE "Ana, gracias por consultar. Te paso el precio en breve."

(* trusted: the contact is a client or provider of trust level 60 or more  *)
(* with auto-reply allowed                                                 *)
allow_auto_send(trusted, message_text) ==
    LET safety == classify(message_text)
    IN trusted /\ safety.category # "sensitive" /\ safety.operational

(* "Mensaje de <name>: <body>." and, with a draft, "Borrador sugerido:     *)
(* <draft>. Responde confirmo para enviar."; no body or draft of the model *)
(* is longer than the 160 characters _truncate keeps.                      *)
_build_user_notification(contact_name, body, draft) ==
    IF draft # {}
    THEN <<"Mensaje de", contact_name, body, "Borrador sugerido:",
           CHOOSE d \in draft : TRUE, "Responde confirmo para enviar.">>
    ELSE <<"Mensaje de", contact_name, body>>

_set_pending_action_overwriting(w, user_chat_id, contact_chat_id, thread_id, draft) ==
    IF user_chat_id = NoChat
    THEN [w |-> w, set |-> FALSE]
    ELSE [w |-> [w EXCEPT !.state[user_chat_id].pending_action_json =
                              {[type |-> "message_send",
                                payload |-> [chat_id |-> {contact_chat_id},
                                             text |-> {draft},
                                             thread_id |-> {thread_id}]]},
                          !.state[user_chat_id].last_intent = "message_send"],
          set |-> TRUE]

_set_pending_action(w, user_chat_id, contact_chat_id, thread_id, draft) ==
    IF user_chat_id = NoChat \/ w.state[user_chat_id].pending_action_json # {}
    THEN [w |-> w, set |-> FALSE]
    ELSE [w |-> [w EXCEPT !.state[user_chat_id].pending_action_json =
                              {[type |-> "message_send",
                                payload |-> [chat_id |-> {contact_chat_id},
                                             text |-> {draft},
                                             thread_id |-> {thread_id}]]},
                          !.state[user_chat_id].last_intent = "message_send"],
          set |-> TRUE]

NoAutoReply == [w |-> World, auto_reply |-> {}, notify |-> {}]

(* got: the thread get_or_create_thread returned *)
handle_contact_inbound(w, chat_id, body, display_name, user_chat_id, trusted, t, got) ==
    LET safety == classify(body)
        inbound_kind == _inbound_kind(safety, got.threads[got.id])
        recorded == [w EXCEPT !.threads = record_inbound(got.threads, got.id, inbound_kind)]
        draft == build_reply_draft(body, display_name)
    IN IF safety.closing /\ recorded.threads[got.id].status = "closed"
       THEN [NoAutoReply EXCEPT !.w = recorded]
       ELSE IF ~safety.requires_response THEN [NoAutoReply EXCEPT !.w = recorded]
       ELSE IF /\ allow_auto_send(trusted, draft)
               /\ safety.category # "sensitive"
               /\ autonomy_enabled(w.rules, "message_reply", t)
       THEN [w |-> recorded,
             auto_reply |-> {[chat_id |-> chat_id, text |-> draft, thread_id |-> got.id,
                              outbound_kind |-> _outbound_kind(draft)]},
             notify |-> {}]
       ELSE LET pending == _set_pending_action(recorded, user_chat_id, chat_id, got.id, draft)
                notify_text == _build_user_notification(display_name, body,
                                   IF pending.set THEN {draft} ELSE {})
            IN [w |-> pending.w, auto_reply |-> {},
                notify |-> IF user_chat_id # NoChat THEN {notify_text} ELSE {}]

(* waha_webhook for a chat that is not the user's, and the background     *)
(* task that sends the auto-reply                                          *)
ContactWebhook(chat_id, body, display_name, trusted, send_ok) ==
    LET user_chat_id == _resolve_user_chat_id(env_chat, facts)
    IN /\ user_chat_id # NoChat /\ chat_id # user_chat_id
       /\ \E got \in get_or_create_thread(threads, chat_id) :
            LET result == handle_contact_inbound(World, chat_id, body, display_name,
                                                 user_chat_id, trusted, now, got)
                after == IF result.auto_reply = {} THEN result.w
                         ELSE LET reply == CHOOSE r \in result.auto_reply : TRUE
                              IN send_contact_reply(result.w, reply.thread_id, reply.chat_id,
                                                    reply.text, reply.outbound_kind, send_ok,
                                                    TRUE).w
            IN /\ Len(after.threads) <= MaxThreads
               /\ after.message_sends <= MaxSends
               /\ threads' = after.threads
               /\ state' = after.state
               /\ message_sends' = after.message_sends
               /\ last' = [chat |-> chat_id, text |-> body, reply |-> NoReply,
                           raised |-> FALSE, cal |-> "ok", before |-> state[user_chat_id],
                           active |-> get_active_request(requests, user_chat_id),
                           create_calls |-> create_calls, message_sends |-> message_sends,
                           tool_runs |-> after.tool_runs, notify |-> result.notify]
       /\ UNCHANGED <<requests, has_token, calendar, duration_prompts, create_calls,
                      inbound_count, habit_logs>>
       /\ UNCHANGED <<now, tick_vars, probe_vars>>

ContactMessage ==
    \E chat_id \in Contacts : \E body \in ContactTexts : \E display_name \in DisplayNames :
       \E trusted \in BOOLEAN : \E send_ok \in BOOLEAN :
          ContactWebhook(chat_id, body, display_name, trusted, send_ok)

UserDecides ==
    \E text \in {"confirmo", "cancelar"} : \E send_ok \in BOOLEAN :
       /\ message_sends < MaxSends
       /\ waha_webhook("user@c.us", text, "ok", send_ok)

InitThreads ==
    /\ now = Instants[2]
    /\ config = NoConfig
    /\ env_chat = "user@c.us"
    /\ rules \in {<<>>, <<Rule("message_reply", "on", NoTime)>>}
    /\ events = <<>>
    /\ send_attempts = [k \in AllKeys |-> 0]
    /\ habit_nudges = <<>>
    /\ what_works = [s \in Strategies |-> [sent |-> 0, done_after |-> 0]]
    /\ facts = [k \in FactKeys |-> NoFact]
    /\ tick_out = NoTick
    /\ ProbeVarsInit
    /\ ChatVarsInit

NextThreads == ContactMessage \/ UserDecides

SpecThreads == InitThreads /\ [][NextThreads]_vars

(* C28: after any sequence of contact messages, auto-replies, confirmed    *)
(* replies addressed by thread id and closings, each contact has at most   *)
(* one thread whose status is not 'closed'.                                *)
C28_OneOpenThreadPerContact ==
    \A contact \in Contacts : Cardinality(NonClosed(threads, contact)) <= 1

(* the other half of C28: a message of a contact that has a non-closed     *)
(* thread adds no thread, and one of a contact without adds exactly one    *)
C28_ThreadReused ==
    [][\A contact \in Contacts :
          (last'.chat = contact /\ last' # last)
             => Len(threads') = Len(threads)
                  + (IF NonClosed(threads, contact) = {} THEN 1 ELSE 0)]_vars

(* The commands that write a rule: 'modo foco N horas', 'solo urgencias',  *)
(* 'normal', 'autonomia on mensajes N horas' (0 horas gives no expiry) and *)
(* 'autonomia off mensajes'.                                               *)
RuleCommands ==
    {[scope |-> "global", mode |-> "focus", hours |-> {1}],
     [scope |-> "global", mode |-> "focus", hours |-> {5}],
     [scope |-> "global", mode |-> "urgencies_only", hours |-> {}],
     [scope |-> "message_reply", mode |-> "on", hours |-> {0}],
     [scope |-> "message_reply", mode |-> "on", hours |-> {1}],
     [scope |-> "message_reply", mode |-> "on", hours |-> {5}],
     [scope |-> "message_reply", mode |-> "off", hours |-> {}]}

CreateRule ==
    /\ Len(rules) < MaxRules
    /\ \E c \in RuleCommands :
          rules' = _create_autonomy_rule(rules, c.scope, c.mode, c.hours, now)
    /\ UNCHANGED <<now, config, events, send_attempts, habit_nudges, what_works,
                   env_chat, facts, tick_out>>
    /\ UNCHANGED probe_vars
    /\ UNCHANGED chat_vars

(* every reader is asked at the same instant over the same table *)
ReadAutonomy ==
    /\ autonomy_out' =
          [set |-> TRUE, rules |-> rules, t |-> now,
           snapshot |-> _build_autonomy_snapshot(rules, now),
           status |-> _build_autonomy_status(rules, now),
           contact |-> autonomy_enabled(rules, "message_reply", now),
           tick |-> _get_autonomy_mode(rules, now)]
    /\ UNCHANGED <<now, d_in, d_out, sup_in, sup_out>>
    /\ UNCHANGED digest_vars
    /\ UNCHANGED runtime_vars
    /\ UNCHANGED coach_vars
    /\ UNCHANGED tick_vars
    /\ UNCHANGED chat_vars

InitAutonomy ==
    /\ now = Instants[1]
    /\ config = NoConfig
    /\ env_chat = NoChat
    /\ TickVarsInit
    /\ ProbeVarsInit
    /\ ChatVarsInit

NextAutonomy == CreateRule \/ Advance \/ ReadAutonomy

SpecAutonomy == InitAutonomy /\ [][NextAutonomy]_vars

(* the rules of a scope that have not expired at t, and the mode the       *)
(* newest of them gives (the scope's default when there is none)           *)
Unexpired(rs, scope, t) ==
    {i \in 1..Len(rs) :
        rs[i].scope = scope /\ (rs[i].until_at = NoTime \/ rs[i].until_at > t)}

EffectiveMode(rs, scope, t) ==
    LET valid == Unexpired(rs, scope, t) IN
    IF valid = {} THEN (IF scope = "global" THEN "normal" ELSE "off")
    ELSE rs[CHOOSE i \in valid : \A j \in valid : j <= i].mode

(* C14 as stated: every reader answers with the mode of the most recently  *)
(* created rule of the scope that has not expired, falling back to an      *)
(* older unexpired rule when the newest has expired, and to the default    *)
(* (normal for global, off for the action scopes) only when none is left.  *)
C14_EffectiveRuleEverywhere ==
    autonomy_out.set =>
        LET rs == autonomy_out.rules
            t == autonomy_out.t
        IN /\ \A scope \in ActionScopes :
                /\ autonomy_out.snapshot.scopes[scope].mode = EffectiveMode(rs, scope, t)
                /\ autonomy_out.status[scope].status = EffectiveMode(rs, scope, t)
           /\ autonomy_out.snapshot.global.mode = EffectiveMode(rs, "global", t)
           /\ autonomy_out.contact = (EffectiveMode(rs, "message_reply", t) = "on")
           /\ autonomy_out.tick = EffectiveMode(rs, "global", t)

----------------------------------------------------------------------------
(* The daily digest (apps/worker/app/proactive.py, run_daily_digest).      *)

REQUEST_DIGEST_MIN_PRIORITY == 70

DigestRowOf(tbl, day) == {i \in 1..Len(tbl) : tbl[i].day = day}

(* "existing and existing.sent_at is not None" *)
AlreadySent_never(tbl, day) == FALSE

AlreadySent(tbl, day) == \E i \in DigestRowOf(tbl, day) : tbl[i].sent_at # NoTime

(* the 'digested' rows created on the day, oldest first *)
DigestedOfDay(evs, day) ==
    SelectSeq(evs, LAMBDA ev : ev.decision = "digested" /\ DayOf(ev.created_at) = day)

(* one line per event that is not a habit's *)
_build_digest_lines(evs) ==
    LET kept == SelectSeq(evs, LAMBDA ev : ~IsHabit(ev.trigger_type))
    IN [i \in 1..Len(kept) |-> kept[i].entity_id]

(* the open requests of the chat with priority >= 70, by priority, at most 3 *)
_build_request_digest_lines(reqs, chat_id) ==
    LET open == OrderOpen(reqs[chat_id],
                    {k \in ReqKeys : /\ reqs[chat_id][k].status = "open"
                                     /\ reqs[chat_id][k].priority >=
                                            REQUEST_DIGEST_MIN_PRIORITY})
    IN SubSeq(open, 1, Min(Len(open), 3))

_format_digest_message(lines, request_lines, habit_lines) ==
    [lines |-> SubSeq(lines, 1, Min(Len(lines), 10)),
     remaining |-> Len(lines) - Min(Len(lines), 10),
     request_lines |-> request_lines,
     habit_lines |-> SubSeq(habit_lines, 1, Min(Len(habit_lines), 5))]

NoContent == [lines |-> <<>>, remaining |-> 0, request_lines |-> <<>>, habit_lines |-> <<>>]

(* habit_lines is what _build_habit_digest_lines reads from the habits and *)
(* their logs; send_ok is whether send_text returns.  The result is the    *)
(* table, the deliveries and the report of the run.                        *)
run_daily_digest(tbl, sends, evs, reqs, env, fs, t, habit_lines, send_ok) ==
    LET day == DayOf(t)
        existing == DigestRowOf(tbl, day)
        chat_id == _resolve_chat_id(env, fs)
        day_events == DigestedOfDay(evs, day)
        request_lines == IF chat_id = NoChat THEN <<>>
                         ELSE _build_request_digest_lines(reqs, chat_id)
        content == _format_digest_message(_build_digest_lines(day_events), request_lines,
                                          habit_lines)
        sent_at == IF send_ok THEN t ELSE NoTime
        nothing == [digests |-> tbl, sends |-> sends,
                    out |-> [set |-> TRUE, day |-> day, before |-> tbl, after |-> tbl,
                             chat_id |-> chat_id, content |-> NoContent,
                             attempted |-> FALSE, returned |-> 0]]
    IN IF AlreadySent(tbl, day) THEN nothing
       ELSE IF chat_id = NoChat THEN nothing
       ELSE IF day_events = <<>> /\ request_lines = <<>> /\ habit_lines = <<>> THEN nothing
       ELSE LET after == IF existing # {}
                         THEN [i \in 1..Len(tbl) |->
                                 IF i \in existing
                                 THEN [tbl[i] EXCEPT !.content = content, !.sent_at = sent_at]
                                 ELSE tbl[i]]
                         ELSE Append(tbl, [day |-> day, content |-> content,
                                           sent_at |-> sent_at])
            IN [digests |-> after,
                sends |-> IF send_ok THEN [sends EXCEPT ![day] = @ + 1] ELSE sends,
                out |-> [set |-> TRUE, day |-> day, before |-> tbl, after |-> after,
                         chat_id |-> chat_id, content |-> content,
                         attempted |-> TRUE, returned |-> 1]]

HabitLines == {<<>>, <<"Cumplidos: -", "Pendientes: correr", "Rachas: -">>}

RunDailyDigest ==
    /\ \E habit_lines \in HabitLines : \E send_ok \in BOOLEAN :
          \E r \in {run_daily_digest(digests, digest_sends, events, requests, env_chat,
                                     facts, now, habit_lines, send_ok)} :
              /\ digests' = r.digests
              /\ digest_sends' = r.sends
              /\ digest_out' = r.out
    /\ UNCHANGED <<now, d_in, d_out, sup_in, sup_out, autonomy_out>>
    /\ UNCHANGED runtime_vars
    /\ UNCHANGED coach_vars
    /\ UNCHANGED tick_vars
    /\ UNCHANGED chat_vars

(* a detector scan that finds the need of an open request met *)
CloseRequest ==
    /\ \E chat_id \in Chats : \E key \in ReqKeys :
          /\ requests[chat_id][key].status = "open"
          /\ requests' = _close_request_if_exists(requests, chat_id, key, now)
    /\ UNCHANGED <<state, has_token, calendar, duration_prompts, create_calls,
                   message_sends, inbound_count, last, habit_logs, threads>>
    /\ UNCHANGED now
    /\ UNCHANGED tick_vars
    /\ UNCHANGED probe_vars

(* What the tick and the chat handler left: at most one event digested at *)
(* 08:00, at most one open request of the user's chat.                     *)
InitDigest ==
    /\ now = Instants[1]
    /\ config = NoConfig
    /\ env_chat \in {NoChat, "user@c.us"}
    /\ rules = <<>>
    /\ events \in {<<>>,
                    _record_event(<<>>,
                        Candidate("calendar_upcoming", "evt2", 70,
                                  Key("calendar", "evt2", "tminus60", -1), "none"),
                        "digested", "quiet_hours", NoTime, Instants[1])}
    /\ send_attempts = [k \in AllKeys |-> 0]
    /\ habit_nudges = <<>>
    /\ what_works = [st \in Strategies |-> [sent |-> 0, done_after |-> 0]]
    /\ facts = [k \in FactKeys |-> NoFact]
    /\ tick_out = NoTick
    /\ ProbeVarsInit
    /\ state = [c \in Chats |-> NewState]
    /\ requests \in {[c \in Chats |-> [k \in ReqKeys |-> NoRequest]],
                      create_or_reopen_request([c \in Chats |-> [k \in ReqKeys |-> NoRequest]],
                                               "user@c.us", "calendar_auth", 90,
                                               Instants[1], TRUE)}
    /\ has_token = TRUE
    /\ calendar = {}
    /\ duration_prompts = [c \in Chats |-> 0]
    /\ create_calls = 0
    /\ message_sends = 0
    /\ inbound_count = 0
    /\ habit_logs = <<>>
    /\ threads = <<>>
    /\ last = NoLast

NextDigest == RunDailyDigest \/ CloseRequest \/ Advance

SpecDigest == InitDigest /\ [][NextDigest]_vars

RowsBefore(day) == {digest_out.before[i] : i \in DigestRowOf(digest_out.before, day)}
RowsAfter(day) == {digest_out.after[i] : i \in DigestRowOf(digest_out.after, day)}

RanOnSentDay ==
    digest_out.set /\ \E row \in RowsBefore(digest_out.day) : row.sent_at # NoTime

RanOnFailedDay ==
    digest_out.set /\ \E row \in RowsBefore(digest_out.day) : row.sent_at = NoTime

DigestNoOp ==
    /\ ~digest_out.attempted
    /\ digest_out.after = digest_out.before
    /\ digest_out.returned = 0

DigestRetried ==
    /\ digest_out.attempted
    /\ \A row \in RowsAfter(digest_out.day) : row.content = digest_out.content

OnePerDay ==
    \A day \in Days :
        /\ Cardinality(DigestRowOf(digests, day)) <= 1
        /\ digest_sends[day] <= 1

(* C15 as stated: a run on a day whose digest was sent sends nothing,      *)
(* changes nothing and returns 0; a run on a day whose send failed         *)
(* rebuilds the content of the day's row and sends again; a day never has  *)
(* more than one row nor more than one delivered digest.                   *)
C15_DigestIdempotent ==
    /\ RanOnSentDay => DigestNoOp
    /\ RanOnFailedDay => DigestRetried
    /\ OnePerDay

(* the run has a destination chat and something to say *)
HasDigestContent ==
    /\ digest_out.chat_id # NoChat
    /\ digest_out.content # NoContent

(* C15, amended: as stated, except that a run on a day whose send failed   *)
(* retries only when it still has something to report (a digested event of *)
(* the day, an open request of priority 70 or more, or a habit summary);   *)
(* with nothing to report it sends nothing, leaves the row as it is, with  *)
(* sent_at null, and returns 0.                                            *)
C15_DigestIdempotentWhenContent ==
    /\ RanOnSentDay => DigestNoOp
    /\ RanOnFailedDay => IF HasDigestContent THEN DigestRetried ELSE DigestNoOp
    /\ OnePerDay
    /\ digest_out.set =>
          \A row \in RowsAfter(digest_out.day) :
              (digest_out.attempted /\ row.sent_at = NoTime) =>
                  digest_sends[digest_out.day] = 0

(* A run found the row of the day with sent_at null after a failed send,   *)
(* rebuilt its content and delivered the digest.                           *)
C15_Witness ==
    /\ RanOnFailedDay
    /\ DigestRetried
    /\ digest_sends[digest_out.day] = 1
    /\ \E row \in RowsAfter(digest_out.day) : row.sent_at # NoTime

----------------------------------------------------------------------------
(* Two webhook requests of one chat handled at once.  waha_webhook is a    *)
(* plain def endpoint, so each request runs on a thread of the server's   *)
(* pool with its own Session; nothing locks the conversation_state row.   *)
(* A request is followed in two steps: it stores the inbound message and  *)
(* loads the row (session.get), and later runs the rest of the handler    *)
(* on the row it loaded and commits.                                      *)

Threads == {1, 2}

ConcurrentChat == "user@c.us"

ConcurrentTexts == {"confirmo", "cancelar", "modo foco"}

IdleHandler == [pc |-> "idle", text |-> "", row |-> NewState]

(* The UPDATE a commit flushes sets the columns the handler changed on    *)
(* the row it loaded; the other columns keep what the table holds.        *)
FlushRow(current, loaded, after) ==
    [pending_action_json |->
        IF after.pending_action_json # loaded.pending_action_json
        THEN after.pending_action_json ELSE current.pending_action_json,
     pending_question_json |->
        IF after.pending_question_json # loaded.pending_question_json
        THEN after.pending_question_json ELSE current.pending_question_json,
     last_intent |->
        IF after.last_intent # loaded.last_intent
        THEN after.last_intent ELSE current.last_intent]

(* waha_webhook up to _get_or_create_state *)
LoadState(h, text) ==
    LET user_chat_id == _resolve_user_chat_id(env_chat, facts)
    IN /\ handlers.th[h].pc = "idle"
       /\ ~(user_chat_id # NoChat /\ ConcurrentChat # user_chat_id)
       /\ inbound_count' = inbound_count + 1
       /\ handlers' = [handlers EXCEPT
                         !.th[h] = [pc |-> "loaded", text |-> text,
                                    row |-> state[ConcurrentChat]]]
       /\ UNCHANGED <<now, state, requests, has_token, calendar, duration_prompts,
                      create_calls, message_sends, last, habit_logs, threads>>
       /\ UNCHANGED tick_vars
       /\ UNCHANGED <<coach_vars, d_in, d_out, sup_in, sup_out, autonomy_out, digest_vars, scheduler,
                      planner_call>>

(* the rest of handle_incoming_message, on the row the session holds *)
FinishHandling(h) ==
    LET c == ConcurrentChat
        me == handlers.th[h]
    IN /\ me.pc = "loaded"
       /\ \E agent_result \in {handle_incoming_message(
                                  [World EXCEPT !.state[c] = me.row],
                                  Context(c, "ok", TRUE), me.text)} :
            LET after == agent_result.w IN
            /\ state' = [after.state EXCEPT
                            ![c] = FlushRow(state[c], me.row, after.state[c])]
            /\ requests' = after.requests
            /\ facts' = after.facts
            /\ rules' = after.rules
            /\ config' = after.config
            /\ calendar' = after.calendar
            /\ create_calls' = after.create_calls
            /\ message_sends' = after.message_sends
            /\ habit_logs' = after.habit_logs
            /\ threads' = after.threads
            /\ what_works' = after.what_works
       /\ handlers' = [handlers EXCEPT !.th[h].pc = "done"]
       /\ UNCHANGED <<now, has_token, env_chat, duration_prompts, inbound_count, last>>
       /\ UNCHANGED <<events, send_attempts, habit_nudges, tick_out>>
       /\ UNCHANGED <<coach_vars, d_in, d_out, sup_in, sup_out, autonomy_out, digest_vars, scheduler,
                      planner_call>>

Load == \E h \in Threads : \E text \in ConcurrentTexts : LoadState(h, text)

Finish == \E h \in Threads : FinishHandling(h)

InitConcurrent ==
    /\ now = Instants[2]
    /\ config = NoConfig
    /\ env_chat = NoChat
    /\ TickVarsInit
    /\ d_in = NoProbe /\ d_out = NoProbe
    /\ sup_in = NoProbe /\ sup_out = NoProbe
    /\ autonomy_out = NoProbe
    /\ DigestVarsInit
    /\ CoachVarsInit
    /\ \E seed \in SeedStates :
          state = [c \in Chats |-> IF c = ConcurrentChat THEN seed ELSE NewState]
    /\ requests = [c \in Chats |-> [k \in ReqKeys |-> NoRequest]]
    /\ has_token = TRUE
    /\ calendar = {}
    /\ duration_prompts = [c \in Chats |-> 0]
    /\ create_calls = 0
    /\ message_sends = 0
    /\ inbound_count = 0
    /\ habit_logs = <<>>
    /\ threads = <<>>
    /\ last = NoLast
    /\ handlers = [set |-> TRUE, start |-> World, th |-> [h \in Threads |-> IdleHandler]]
    /\ scheduler = NoProbe
    /\ planner_call = NoProbe

NextConcurrent == Load \/ Finish

SpecConcurrent == InitConcurrent /\ [][NextConcurrent]_vars

(* The two messages handled one after the other, each to the end; the     *)
(* tables and outside effects compared are those World reads              *)
Serial(start, first, second) ==
    LET handled(w, text) ==
            handle_incoming_message(w, Context(ConcurrentChat, "ok", TRUE), text).w
    IN [handled(handled(start, first), second) EXCEPT !.tool_runs = <<>>]

BothDone == \A h \in Threads : handlers.th[h].pc = "done"

C17_Serializable ==
    BothDone =>
       \E a \in Threads : \E b \in Threads \ {a} :
           World = Serial(handlers.start, handlers.th[a].text, handlers.th[b].text)

C17_ConfirmOnce ==
    (/\ ConfirmablePlan(handlers.start.state[ConcurrentChat])
     /\ \A h \in Threads : handlers.th[h].pc # "idle"
                              => _fold_text(handlers.th[h].text) \in CONFIRM_COMMANDS)
       => create_calls <= 1

(* C17: two messages of one chat handled concurrently leave the tables    *)
(* and the outside effects (calendar events, messages sent) as handling   *)
(* them in one of the two orders would; two confirms of one pending       *)
(* calendar_create call create_event at most once.                        *)
C17_ConcurrentAsSerial == C17_Serializable /\ C17_ConfirmOnce

----------------------------------------------------------------------------
(* The worker process: a BlockingScheduler whose tick job is an interval   *)
(* job with max_instances=1 and coalesce=True.  The scheduler's loop runs *)
(* on the main thread and submits due jobs to its executor's threads, so   *)
(* it keeps waking while a tick executes.  Fire times are numbered 1, 2,  *)
(* ...; clock is the number of fire times that have passed.               *)

MaxIntervals == 4       \* fire times the clock may pass

max_instances == 1

coalesce == TRUE

(* BaseExecutor.submit_job over the variant without the instance limit *)
CanSubmit_unlimited(running) == TRUE

(* BaseExecutor.submit_job: MaxInstancesReachedError at the limit *)
CanSubmit(running) == running < max_instances

(* _process_jobs: the due run times, only the last one when coalescing *)
DueRunTimes(next_run, clock) ==
    LET all == [i \in 1..(clock - next_run + 1) |-> next_run + i - 1]
    IN IF coalesce /\ all # <<>> THEN <<all[Len(all)]>> ELSE all

RemoveAt(seq, i) == SubSeq(seq, 1, i - 1) \o SubSeq(seq, i + 1, Len(seq))

SchedulerUnchanged ==
    /\ UNCHANGED <<now, handlers, planner_call>>
    /\ UNCHANGED tick_vars
    /\ UNCHANGED <<coach_vars, d_in, d_out, sup_in, sup_out, autonomy_out, digest_vars>>
    /\ UNCHANGED chat_vars

(* one more interval of two minutes has passed *)
IntervalElapses ==
    /\ scheduler.clock < MaxIntervals
    /\ scheduler' = [scheduler EXCEPT !.clock = @ + 1, !.in_grace = TRUE]
    /\ SchedulerUnchanged

(* more than misfire_grace_time has passed since the last fire time *)
GracePasses ==
    /\ scheduler.in_grace
    /\ scheduler' = [scheduler EXCEPT !.in_grace = FALSE]
    /\ SchedulerUnchanged

(* the scheduler wakes with the tick job due: it submits the job's run    *)
(* times to the executor, or skips them when the job has max_instances    *)
(* running, and moves next_run_time past now                              *)
ProcessJobs ==
    /\ scheduler.next_run <= scheduler.clock
    /\ LET run_times == DueRunTimes(scheduler.next_run, scheduler.clock)
       IN scheduler' =
            IF CanSubmit(Len(scheduler.instances))
            THEN [scheduler EXCEPT
                    !.next_run = scheduler.clock + 1,
                    !.instances = Append(@, [run_times |-> run_times, executing |-> FALSE])]
            ELSE [scheduler EXCEPT
                    !.next_run = scheduler.clock + 1,
                    !.skipped = @ \cup {run_times[i] : i \in 1..Len(run_times)}]
    /\ SchedulerUnchanged

(* run_job: the next run time of a submitted instance is dropped as       *)
(* missed when it is older than the grace time, else the tick is called   *)
RunJob(i) ==
    LET inst == scheduler.instances[i]
        run_time == Head(inst.run_times)
    IN /\ ~inst.executing
       /\ inst.run_times # <<>>
       /\ scheduler' =
            IF run_time < scheduler.clock \/ ~scheduler.in_grace
            THEN [scheduler EXCEPT
                    !.instances[i].run_times = Tail(@),
                    !.missed = @ \cup {run_time}]
            ELSE [scheduler EXCEPT
                    !.instances[i].executing = TRUE,
                    !.executions = Append(@, [run_time |-> run_time,
                                              started |-> scheduler.clock])]
       /\ SchedulerUnchanged

(* run_proactive_tick returns, however long it took *)
TickReturns(i) ==
    /\ scheduler.instances[i].executing
    /\ scheduler' = [scheduler EXCEPT
                       !.instances[i].executing = FALSE,
                       !.instances[i].run_times = Tail(@)]
    /\ SchedulerUnchanged

(* the executor's thread is done with the instance *)
InstanceEnds(i) ==
    /\ ~scheduler.instances[i].executing
    /\ scheduler.instances[i].run_times = <<>>
    /\ scheduler' = [scheduler EXCEPT !.instances = RemoveAt(@, i)]
    /\ SchedulerUnchanged

Execute == \E i \in 1..Len(scheduler.instances) : RunJob(i)

Return == \E i \in 1..Len(scheduler.instances) : TickReturns(i)

End == \E i \in 1..Len(scheduler.instances) : InstanceEnds(i)

(* scheduler.start() *)
InitScheduler ==
    /\ now = Instants[1]
    /\ config = NoConfig
    /\ env_chat = NoChat
    /\ TickVarsInit
    /\ d_in = NoProbe /\ d_out = NoProbe
    /\ sup_in = NoProbe /\ sup_out = NoProbe
    /\ autonomy_out = NoProbe
    /\ DigestVarsInit
    /\ CoachVarsInit
    /\ ChatVarsInit
    /\ handlers = NoProbe
    /\ planner_call = NoProbe
    /\ scheduler = [set |-> TRUE, clock |-> 0, in_grace |-> FALSE, next_run |-> 1,
                    instances |-> <<>>, executions |-> <<>>,
                    skipped |-> {}, missed |-> {}]

NextScheduler ==
    IntervalElapses \/ GracePasses \/ ProcessJobs \/ Execute \/ Return \/ End

SpecScheduler == InitScheduler /\ [][NextScheduler]_vars

TicksInProgress == {i \in 1..Len(scheduler.instances) : scheduler.instances[i].executing}

(* C18: at most one tick executes at a time; the scheduler holds at most  *)
(* one run of the tick, never one per interval that passed, and a tick    *)
(* that runs is the current interval's: the intervals that passed while   *)
(* a tick was executing, or while the scheduler was late, are skipped or  *)
(* missed, and at most one run per fire time ever executes.               *)
C18_OneTickNoBacklog ==
    /\ Cardinality(TicksInProgress) <= 1
    /\ Len(scheduler.instances) <= 1
    /\ \A i \in 1..Len(scheduler.instances) : Len(scheduler.instances[i].run_times) <= 1
    /\ \A i \in 1..Len(scheduler.executions) :
          /\ scheduler.executions[i].run_time = scheduler.executions[i].started
          /\ \A j \in 1..(i - 1) :
                scheduler.executions[j].run_time < scheduler.executions[i].run_time
    /\ \A r \in scheduler.skipped \cup scheduler.missed :
          \A i \in 1..Len(scheduler.executions) : scheduler.executions[i].run_time # r

(* A slow tick: it started at fire time 1 and was still executing when    *)
(* fire times 2 and 3 were skipped; the next tick to run was the one of   *)
(* fire time 4, and nothing is queued behind it.                          *)
C18_Witness ==
    /\ Len(scheduler.executions) = 2
    /\ scheduler.executions[1].run_time = 1
    /\ scheduler.executions[2].run_time = 4
    /\ scheduler.skipped = {2, 3}
    /\ Cardinality(TicksInProgress) = 1

----------------------------------------------------------------------------
(* Dismissing a request: the user's chat over days.  The user mentions    *)
(* 'la peluqueria de siempre', is asked for it, answers 'omitir', and      *)
(* mentions it again some days later.                                      *)

MaxDays == 31           \* days the clock may move past the first instant

DismissTexts == {"agendame peluqueria de siempre manana 16", "omitir"}

DayJumps == {1, 29}

Converse ==
    \E text \in DismissTexts :
        \E cal \in CalendarInputs("user@c.us", text) :
            \E send_ok \in TransportInputs("user@c.us", text) :
                waha_webhook("user@c.us", text, cal, send_ok)

DaysPass ==
    /\ \E d \in DayJumps :
          /\ now + d * MinutesPerDay <= Instants[2] + MaxDays * MinutesPerDay
          /\ now' = now + d * MinutesPerDay
    /\ UNCHANGED tick_vars
    /\ UNCHANGED probe_vars
    /\ UNCHANGED chat_vars

InitDismiss ==
    /\ now = Instants[2]
    /\ config = NoConfig
    /\ env_chat = NoChat
    /\ TickVarsInit
    /\ ProbeVarsInit
    /\ ChatVarsInit

NextDismiss == Converse \/ DaysPass

SpecDismiss == InitDismiss /\ [][NextDismiss]_vars

Dismissed(request) == request.status = "dismissed"

(* the end of the 30 days that started when the request was dismissed *)
SuppressedUntil(request) == request.answered_at + SUPPRESS_DAYS * MinutesPerDay

C19_StaysDismissed ==
    \A c \in Chats : \A k \in ReqKeys :
        (Dismissed(requests[c][k]) /\ now < SuppressedUntil(requests[c][k]))
            => Dismissed(requests'[c][k])

C19_ReopenedAfterwards ==
    \A c \in Chats : \A k \in ReqKeys :
        (/\ Dismissed(requests[c][k])
         /\ now >= SuppressedUntil(requests[c][k])
         /\ requests'[c][k] # requests[c][k])
            => /\ requests'[c][k].status \in {"open", "asked"}
               /\ requests'[c][k].answered_at = NoTime
               /\ requests'[c][k].status = "open" => requests'[c][k].asked_at = NoTime

(* C19: a request dismissed at t keeps status 'dismissed' through every   *)
(* scan before t + 30 days; a scan at or after t + 30 days reopens   *)
(* it with asked_at and answered_at cleared (the handler may then ask it  *)
(* again in the same message).                                             *)
C19_DismissedForThirtyDays == [][C19_StaysDismissed /\ C19_ReopenedAfterwards]_vars

----------------------------------------------------------------------------
(* The planner: LlmClient.generate_structured on what the LLM endpoint    *)
(* answers, and the chat handler's route that calls it.                   *)

get_tool_names ==
    {"calendar.create_event", "calendar.list_events", "calendar.is_free",
     "message.reply_draft", "message.send"}

RiskLevels == {"low", "medium", "high"}

fallback_output ==
    [intent |-> "ask_clarifying_question",
     reply |-> "Necesito un poco mas de detalle.",
     questions |-> <<"Podrias aclarar que queres hacer?">>,
     actions |-> <<>>,
     evidence_needed |-> <<>>]

(* PlannerOutput.parse_obj: the validators of PlannerOutput and           *)
(* PlannedAction; the empty set when one of them raises                   *)
parse_obj(parsed) ==
    IF \/ Len(parsed.questions) > 1
       \/ Len(parsed.actions) > 3
       \/ \E i \in 1..Len(parsed.actions) :
             \/ parsed.actions[i].tool \notin get_tool_names
             \/ parsed.actions[i].risk_level \notin RiskLevels
    THEN {}
    ELSE {parsed}

(* json.loads(content) and PlannerOutput.parse_obj inside the try block *)
ParseResponse(response) ==
    IF response.kind # "json" THEN {} ELSE parse_obj(response.parsed)

generate_structured(provider, response) ==
    IF provider # "ollama" THEN fallback_output
    ELSE LET parsed == ParseResponse(response)
         IN IF parsed = {} THEN fallback_output ELSE CHOOSE o \in parsed : TRUE

(* What the endpoint may answer: no connection, an HTTP error status,     *)
(* content that is not JSON, or a JSON object of the planner's shape.     *)
GoodAction ==
    [tool |-> "calendar.create_event", input |-> {"title", "start", "end"},
     risk_level |-> "low", requires_confirmation |-> FALSE]

PlannedActionLists ==
    {<<>>, <<GoodAction>>,
     <<[GoodAction EXCEPT !.tool = "shell.exec"]>>,
     <<[GoodAction EXCEPT !.risk_level = "critical"]>>,
     <<GoodAction, GoodAction, GoodAction>>,
     <<GoodAction, GoodAction, GoodAction, GoodAction>>}

ParsedObjects ==
    [intent : {"calendar_create"},
     reply : {"Dale"},
     questions : {<<>>, <<"Para cuando?">>, <<"Para cuando?", "Donde?">>},
     actions : PlannedActionLists,
     evidence_needed : {<<>>}]

Responses ==
    {[kind |-> k, parsed |-> fallback_output] : k \in {"connect_error", "http_error", "not_json"}}
    \cup {[kind |-> "json", parsed |-> o] : o \in ParsedObjects}

PlannerTexts == {"necesito ayuda", "gracias por todo", "hola"}

(* a message of the user's chat while the endpoint answers as drawn *)
PlannerMessage ==
    /\ \E text \in PlannerTexts :
          \E cal \in CalendarInputs("user@c.us", text) :
              \E send_ok \in TransportInputs("user@c.us", text) :
                  /\ WebhookHandling("user@c.us", text, cal, send_ok)
                  /\ planner_call' =
                        IF _should_use_llm(text) /\ last'.raised
                        THEN [planner_call EXCEPT
                                !.called_for = inbound_count',
                                !.output = {generate_structured(planner_call.provider,
                                                                planner_call.response)}]
                        ELSE planner_call
    /\ UNCHANGED <<coach_vars, d_in, d_out, sup_in, sup_out, autonomy_out, digest_vars,
                   handlers, scheduler>>

InitPlanner ==
    /\ now = Instants[2]
    /\ config = NoConfig
    /\ env_chat = NoChat
    /\ TickVarsInit
    /\ d_in = NoProbe /\ d_out = NoProbe
    /\ sup_in = NoProbe /\ sup_out = NoProbe
    /\ autonomy_out = NoProbe
    /\ DigestVarsInit
    /\ CoachVarsInit
    /\ handlers = NoProbe /\ scheduler = NoProbe
    /\ \E provider \in {"ollama", "none"} : \E response \in Responses :
          planner_call = [set |-> TRUE, provider |-> provider, response |-> response,
                          called_for |-> 0, output |-> {}]
    /\ ChatVarsInit

NextPlanner == PlannerMessage

SpecPlanner == InitPlanner /\ [][NextPlanner]_vars

(* the endpoint failed, or answered what the schema rejects *)
SchemaViolated(parsed) ==
    \/ Len(parsed.questions) > 1
    \/ Len(parsed.actions) > 3
    \/ \E i \in 1..Len(parsed.actions) :
          \/ parsed.actions[i].tool \notin get_tool_names
          \/ parsed.actions[i].risk_level \notin RiskLevels

PlannerFailed ==
    /\ planner_call.called_for > 0
    /\ \/ planner_call.response.kind # "json"
       \/ SchemaViolated(planner_call.response.parsed)

C20_FallbackPlan ==
    PlannerFailed =>
       \A plan \in planner_call.output :
          /\ plan = fallback_output
          /\ Len(plan.questions) = 1
          /\ plan.actions = <<>>

C20_HandlerAsks ==
    (PlannerFailed /\ planner_call.called_for = inbound_count) =>
       /\ ~last.raised
       /\ last.reply = fallback_output.questions
       /\ create_calls = last.create_calls
       /\ message_sends = 0
       /\ state[last.chat].pending_action_json = {}

(* C20: when the planner call fails or its output violates the schema,    *)
(* the plan is the fallback (one clarifying question, no actions), and    *)
(* the handler executes no tool, stores no pending action and replies     *)
(* with that question.                                                    *)
C20_PlannerFallback == C20_FallbackPlan /\ C20_HandlerAsks

----------------------------------------------------------------------------
(* The scheduling dialogue: the user asks for an event, answers the        *)
(* questions for what is missing and picks an alternative when the slot is *)
(* busy, while a contact's message may leave a reply draft to confirm.     *)

ScheduleTexts ==
    {"agendame corte", "agendame corte manana 16", "agendame corte manana 16 por 30 min",
     "agendame peluqueria de siempre manana 16", "manana 16", "60", "1", "2", "confirmo"}

(* the half hours of tomorrow from 16:00 to 19:00, each busy or not *)
HalfHours == 0..5

HalfHour(i, t) ==
    [start |-> (DayOf(t) + 1) * MinutesPerDay + 16 * 60 + 30 * i,
     end |-> (DayOf(t) + 1) * MinutesPerDay + 16 * 60 + 30 * (i + 1)]

Calendars(t) == {{HalfHour(i, t) : i \in busy} : busy \in SUBSET HalfHours}

(* the place stored as 'peluqueria de siempre', or none *)
BarbershopFacts == {NoFact, [value |-> "Peluqueria Juan", confidence |-> 80]}

(* the dialogue as an earlier message left it: nothing pending, or the     *)
(* question for the start after 'agendame corte'                          *)
DialogueSeeds ==
    {NewState,
     ConversationState({}, {[type |-> "start_time", title |-> "corte", duration_minutes |-> {},
                             location |-> {}, chat_id |-> "user@c.us"]}, "calendar_schedule")}

UserSchedules ==
    \E text \in ScheduleTexts : waha_webhook("user@c.us", text, "ok", TRUE)

(* a contact's question, which leaves a draft for the user to confirm *)
ContactAsks == ContactWebhook("ana@c.us", "me pasas el precio?", "Ana", FALSE, TRUE)

InitSchedule ==
    /\ now = Instants[2]
    /\ config = NoConfig
    /\ env_chat = "user@c.us"
    /\ rules = <<>>
    /\ events = <<>>
    /\ send_attempts = [k \in AllKeys |-> 0]
    /\ habit_nudges = <<>>
    /\ what_works = [s \in Strategies |-> [sent |-> 0, done_after |-> 0]]
    /\ \E fact \in BarbershopFacts :
          facts = [k \in FactKeys |-> IF k = "default_barbershop" THEN fact ELSE NoFact]
    /\ tick_out = NoTick
    /\ ProbeVarsInit
    /\ \E seed \in DialogueSeeds :
          state = [c \in Chats |-> IF c = "user@c.us" THEN seed ELSE NewState]
    /\ requests = [c \in Chats |-> [k \in ReqKeys |-> NoRequest]]
    /\ has_token = TRUE
    /\ calendar \in Calendars(now)
    /\ duration_prompts = [c \in Chats |-> 0]
    /\ create_calls = 0
    /\ message_sends = 0
    /\ inbound_count = 0
    /\ habit_logs = <<>>
    /\ threads = <<>>
    /\ last = NoLast

NextSchedule == UserSchedules \/ ContactAsks

SpecSchedule == InitSchedule /\ [][NextSchedule]_vars

(* The request the last message completed: a full request typed at once,   *)
(* or the answer that filled the last field missing.  At most one start    *)
(* and duration.  A message that answers an asked request is not read as  *)
(* part of the dialogue.                                                   *)
CompletedRequests ==
    IF last = NoLast \/ last.chat # "user@c.us" \/ last.active # {} THEN {}
    ELSE IF last.before.pending_question_json = {}
    THEN IF last.before.pending_action_json = {}
         THEN {[start |-> r.start_dt, duration |-> r.duration_minutes] :
                 r \in {x \in _parse_schedule_request(last.text, now) :
                           x.start_dt # {} /\ x.duration_minutes # {}}}
         ELSE {}
    ELSE LET question == CHOOSE q \in last.before.pending_question_json : TRUE IN
         IF question.type = "duration_minutes" /\ _parse_int(last.text) # {}
         THEN {[start |-> _parse_iso_datetime(question.start_dt),
                duration |-> _parse_int(last.text)]}
         ELSE IF question.type = "start_time" /\ question.duration_minutes # {}
                 /\ _parse_datetime(last.text, now) # {}
         THEN {[start |-> _parse_datetime(last.text, now),
                duration |-> question.duration_minutes]}
         ELSE {}

Overlaps(start, end) == \E ev \in calendar : ev.start < end /\ ev.end > start

(* the offsets from the requested start at which the event would fit *)
FreeOffsets(start, duration) ==
    {offset \in {30, 60, 90, 120} : ~Overlaps(start + offset, start + offset + duration)}

(* the first two of them, or the only one *)
FirstFree(start, duration) ==
    {offset \in FreeOffsets(start, duration) :
        Cardinality({o \in FreeOffsets(start, duration) : o < offset}) < 2}

(* the stored options are the free offsets kept, in order *)
OptionsAre(options, start, duration, kept) ==
    /\ Len(options) = Cardinality(kept)
    /\ \A i \in 1..Len(options) :
          \E offset \in kept :
             /\ Cardinality({o \in kept : o < offset}) = i - 1
             /\ options[i].start = {isoformat(start + offset)}
             /\ options[i].end = {isoformat(start + offset + duration)}

BusyOutcome(pending_action_after) ==
    \A request \in CompletedRequests : \A start \in request.start :
    \A duration \in request.duration :
       (~last.raised /\ Overlaps(start, start + duration)) =>
          LET kept == FirstFree(start, duration)
              after == state["user@c.us"]
          IN IF kept = {}
             THEN /\ last.reply = <<"No hay disponibilidad en ese horario. Proba otro.">>
                  /\ after.pending_question_json = {}
                  /\ after.pending_action_json = pending_action_after
             ELSE /\ last.reply[1] = "Hay conflicto. Opciones:"
                  /\ last.reply[2] = ToString(Cardinality(kept))
                  /\ after.pending_action_json = last.before.pending_action_json
                  /\ \E question \in after.pending_question_json :
                        /\ after.pending_question_json = {question}
                        /\ question.type = "conflict_choice"
                        /\ OptionsAre(question.options, start, duration, kept)

(* C32 as stated: when the requested slot is busy the options offered and  *)
(* stored in a conflict_choice question are the first free slots, at most  *)
(* two, among start + 30, 60, 90, 120; if none is free the reply reports   *)
(* no availability and both pending slots are empty.                       *)
C32_AlternativesOrNothingPending == BusyOutcome({})

(* C32, amended: if none is free the pending question is empty and the     *)
(* pending action is what it was before the message.                       *)
C32_AlternativesOffered ==
    last # NoLast => BusyOutcome(last.before.pending_action_json)

(* a busy slot with one busy alternative between two free ones *)
C32_Witness ==
    /\ \E request \in CompletedRequests : \E start \in request.start :
       \E duration \in request.duration :
          /\ Overlaps(start, start + duration)
          /\ FirstFree(start, duration) = {30, 90}
    /\ state["user@c.us"].pending_question_json # {}

(* the place of a question type in the dialogue; 0 for the others *)
DialogueRank(q_type) ==
    CASE q_type = "start_time" -> 1
      [] q_type = "duration_minutes" -> 2
      [] q_type = "conflict_choice" -> 3
      [] OTHER -> 0

QuestionOf(chat_state) == chat_state.pending_question_json

(* the question pending after the step is not an earlier one than before  *)
MovesForward ==
    \A before \in QuestionOf(state["user@c.us"]) :
    \A after \in QuestionOf(state'["user@c.us"]) :
       (DialogueRank(before.type) > 0 /\ DialogueRank(after.type) > 0)
          => DialogueRank(after.type) >= DialogueRank(before.type)

(* what a stored question holds: a duration question its start, a         *)
(* conflict question the duration and one or two options                  *)
WellFormedQuestion(question) ==
    /\ question.type = "duration_minutes" => _parse_iso_datetime(question.start_dt) # {}
    /\ question.type = "conflict_choice" =>
          /\ question.duration_minutes # {}
          /\ Len(question.options) \in {1, 2}
          /\ \A i \in 1..Len(question.options) :
                /\ _parse_iso_datetime(question.options[i].start) # {}
                /\ _parse_iso_datetime(question.options[i].end) # {}

(* the step handles the user's answer k to a pending conflict_choice *)
AnswersChoice(question, k) ==
    /\ last'.chat = "user@c.us" /\ inbound_count' = inbound_count + 1
    /\ question \in QuestionOf(state["user@c.us"])
    /\ question.type = "conflict_choice"
    /\ last'.text = ToString(k)
    /\ k \in 1..Len(question.options)

ChoiceMade(question, k) ==
    /\ QuestionOf(state'["user@c.us"]) = {}
    /\ \E plan \in state'["user@c.us"].pending_action_json :
          /\ state'["user@c.us"].pending_action_json = {plan}
          /\ plan.type = "calendar_create"
          /\ plan.payload.start = question.options[k].start
          /\ plan.payload.end = question.options[k].end

(* C33: the pending question only moves forward along start_time,         *)
(* duration_minutes, conflict_choice; a duration_minutes question is       *)
(* stored only with a known start, a conflict_choice question only with a  *)
(* known duration and one or two options; answering conflict_choice with   *)
(* k in 1..len(options) clears the question and sets a calendar_create     *)
(* pending action whose start and end are those of option k.               *)
C33_DialogueForward ==
    [][/\ MovesForward
       /\ \A question \in QuestionOf(state'["user@c.us"]) : WellFormedQuestion(question)
       /\ \A question \in QuestionOf(state["user@c.us"]) : \A k \in 1..2 :
             AnswersChoice(question, k) => ChoiceMade(question, k)]_vars

(* the second of two options was picked and is the plan to confirm *)
C33_Witness ==
    /\ last # NoLast /\ last.chat = "user@c.us" /\ last.text = "2"
    /\ \E question \in last.before.pending_question_json :
          /\ question.type = "conflict_choice"
          /\ Len(question.options) = 2
          /\ \E plan \in state["user@c.us"].pending_action_json :
                /\ plan.type = "calendar_create"
                /\ plan.payload.start = question.options[2].start
    /\ state["user@c.us"].pending_question_json = {}

----------------------------------------------------------------------------
(* Actions held for confirmation, with everything that runs next to the    *)
(* user's chat: the messages of a contact, the proactive tick and the      *)
(* daily digest.                                                           *)

HeldTexts == {"confirmo", "cancelar", "hola", "agendame corte manana 16 por 30 min"}

UserWrites ==
    \E text \in HeldTexts : \E send_ok \in TransportInputs("user@c.us", text) :
       /\ message_sends < MaxSends
       /\ waha_webhook("user@c.us", text, "ok", send_ok)

(* one tick, with the calendar reminder as its only candidate, and one     *)
(* digest run are enough to see what they touch                           *)
TickRuns ==
    /\ events = <<>>
    /\ \E raw \in {r \in CandidateLists(now) : Len(r) = 1 /\ r[1].entity_id = "evt1"} :
       \E ok \in SUBSET (1..Len(raw)) :
          run_proactive_tick(raw, ok)
    /\ UNCHANGED <<now, rules, env_chat, facts>>
    /\ UNCHANGED probe_vars
    /\ UNCHANGED chat_vars

DigestRuns == digest_out = NoProbe /\ RunDailyDigest

(* a contact's message: a question or a closing *)
ContactWrites ==
    \E body \in {"me pasas el precio?", "gracias"} : \E trusted \in BOOLEAN :
       ContactWebhook("ana@c.us", body, "Ana", trusted, TRUE)

InitHeld ==
    /\ now = Instants[2]
    /\ config = NoConfig
    /\ env_chat = "user@c.us"
    /\ rules \in {<<>>, <<Rule("message_reply", "on", NoTime)>>}
    /\ events = <<>>
    /\ send_attempts = [k \in AllKeys |-> 0]
    /\ habit_nudges = <<>>
    /\ what_works = [s \in Strategies |-> [sent |-> 0, done_after |-> 0]]
    /\ facts = [k \in FactKeys |-> NoFact]
    /\ tick_out = NoTick
    /\ ProbeVarsInit
    /\ \E seed \in SeedStates :
          state = [c \in Chats |-> IF c = "user@c.us" THEN seed ELSE NewState]
    /\ requests = [c \in Chats |-> [k \in ReqKeys |-> NoRequest]]
    /\ has_token = TRUE
    /\ calendar = {}
    /\ duration_prompts = [c \in Chats |-> 0]
    /\ create_calls = 0
    /\ message_sends = 0
    /\ inbound_count = 0
    /\ habit_logs = <<>>
    /\ threads = <<>>
    /\ last = NoLast

NextHeld == UserWrites \/ ContactWrites \/ TickRuns \/ DigestRuns

SpecHeld == InitHeld /\ [][NextHeld]_vars

HeldBy(chat_id) == state[chat_id].pending_action_json

ConfirmKeywords == {"confirmo", "si", "s", "ok"}

(* the step handles a confirm keyword of a chat that holds an action of    *)
(* the given type                                                          *)
ConfirmsHeld(type) ==
    /\ inbound_count' = inbound_count + 1
    /\ last'.text \in ConfirmKeywords
    /\ \E held \in HeldBy(last'.chat) : held.type = type

(* the step is the auto-reply to a contact's message: no held action is     *)
(* touched                                                                 *)
AutoReplies ==
    /\ inbound_count' = inbound_count
    /\ last'.chat \in Contacts
    /\ \A c \in Chats : state'[c].pending_action_json = HeldBy(c)

(* C34: an action held for confirmation is executed only while handling a  *)
(* confirm keyword from the chat that holds it: a step that calls           *)
(* create_event or sends a message is such a confirm (or, for a send, the   *)
(* auto-reply to a contact, which leaves the held actions alone); ticks and *)
(* digest runs call neither, and a cancel discards the held action and      *)
(* executes nothing.                                                       *)
C34_ExecutedOnlyOnConfirm ==
    [][/\ create_calls' # create_calls => ConfirmsHeld("calendar_create")
       /\ message_sends' # message_sends => (ConfirmsHeld("message_send") \/ AutoReplies)
       /\ (/\ inbound_count' = inbound_count + 1
           /\ _fold_text(last'.text) \in CANCEL_COMMANDS) =>
             /\ state'[last'.chat].pending_action_json = {}
             /\ create_calls' = create_calls /\ message_sends' = message_sends]_vars

(* a draft stored by the contact handler went out on the user's confirmo,  *)
(* after a tick and a digest run                                           *)
C34_Witness ==
    /\ last # NoLast /\ last.chat = "user@c.us" /\ last.text = "confirmo"
    /\ \E held \in last.before.pending_action_json :
          held.type = "message_send" /\ held.payload.thread_id # {}
    /\ message_sends = last.message_sends + 1
    /\ events # <<>> /\ digest_out # NoProbe

(* the step handled a contact's message *)
ContactHandled ==
    /\ last'.chat \in Contacts
    /\ <<threads, state, last>>' # <<threads, state, last>>

(* the notification shows a draft or asks for a confirmo *)
CarriesDraft(notify_text) ==
    \E i \in 1..Len(notify_text) :
        notify_text[i] \in {"Borrador sugerido:", "Responde confirmo para enviar."}

(* the user confirms right after a contact's message that found an action *)
(* held                                                                    *)
ConfirmsAfterContact ==
    /\ inbound_count' = inbound_count + 1
    /\ last'.chat = "user@c.us" /\ last'.text \in ConfirmKeywords
    /\ last.chat \in Contacts
    /\ last.before.pending_action_json # {}

(* C37: a contact's message leaves an action held for the user as it was   *)
(* and notifies the user without a draft and without a confirm prompt; a   *)
(* notification that shows a draft is sent only when nothing was held, and *)
(* that draft is then the held action; a confirmo after the contact's      *)
(* message executes the action held before it, not the contact's draft.    *)
C37_PendingActionKept ==
    [][/\ ContactHandled =>
             /\ HeldBy("user@c.us") # {} =>
                   /\ state'["user@c.us"].pending_action_json = HeldBy("user@c.us")
                   /\ \A n \in last'.notify : ~CarriesDraft(n)
             /\ \A n \in last'.notify :
                   CarriesDraft(n) =>
                      /\ HeldBy("user@c.us") = {}
                      /\ \E held \in state'["user@c.us"].pending_action_json :
                            /\ held.type = "message_send"
                            /\ held.payload.chat_id = {last'.chat}
                            /\ \E i \in 1..Len(n) : held.payload.text = {n[i]}
       /\ ConfirmsAfterContact =>
             /\ HeldBy("user@c.us") = last.before.pending_action_json
             /\ \A held \in HeldBy("user@c.us") :
                   IF held.type = "calendar_create"
                   THEN message_sends' = message_sends
                   ELSE /\ create_calls' = create_calls
                        /\ message_sends' = message_sends + 1
                        /\ held.payload.chat_id # {last.chat}
                              => threads' = threads]_vars

(* a contact wrote while a calendar plan was held: the plan stayed, the    *)
(* notification showed no draft, and the user's confirmo created the event *)
C37_Witness ==
    /\ last # NoLast /\ last.chat = "user@c.us" /\ last.text = "confirmo"
    /\ \E held \in last.before.pending_action_json : held.type = "calendar_create"
    /\ create_calls = last.create_calls + 1
    /\ message_sends = last.message_sends
    /\ \E i \in 1..Len(threads) : threads[i].status = "waiting_me"

----------------------------------------------------------------------------
(* The status commands, asked while a plan or a question is pending.       *)

StatusTexts ==
    {"status autonomia", "status proactivo", "confirmo", "modo foco 2 horas",
     "agendame corte manana 16 por 30 min"}

StatusCommands == {"status autonomia", "status proactivo"}

UserAsksStatus ==
    \E text \in StatusTexts : waha_webhook("user@c.us", text, "ok", TRUE)

InitStatus ==
    /\ now = Instants[2]
    /\ config \in {NoConfig} \cup ConfiguredRows
    /\ env_chat = "user@c.us"
    /\ rules \in {<<>>, <<Rule("calendar_create", "on", Instants[3])>>}
    /\ events = <<>>
    /\ send_attempts = [k \in AllKeys |-> 0]
    /\ habit_nudges = <<>>
    /\ what_works = [s \in Strategies |-> [sent |-> 0, done_after |-> 0]]
    /\ facts = [k \in FactKeys |-> NoFact]
    /\ tick_out = NoTick
    /\ ProbeVarsInit
    /\ \E seed \in SeedStates \cup DialogueSeeds :
          state = [c \in Chats |-> IF c = "user@c.us" THEN seed ELSE NewState]
    /\ requests = [c \in Chats |-> [k \in ReqKeys |-> NoRequest]]
    /\ has_token = TRUE
    /\ calendar = {}
    /\ duration_prompts = [c \in Chats |-> 0]
    /\ create_calls = 0
    /\ message_sends = 0
    /\ inbound_count = 0
    /\ habit_logs = <<>>
    /\ threads = <<>>
    /\ last = NoLast

NextStatus == UserAsksStatus

SpecStatus == InitStatus /\ [][NextStatus]_vars

(* this step handled a status command of the user, and no asked request    *)
(* took the text as its answer                                             *)
StatusAsked ==
    /\ last' # last
    /\ last'.chat = "user@c.us"
    /\ last'.text \in StatusCommands
    /\ last'.active = {}

(* C36: a status command changes nothing but last_intent: the chat's       *)
(* pending action and pending question and the autonomy rules are after    *)
(* the command what they were before it.                                   *)
C36_StatusReadOnly ==
    [][StatusAsked =>
          /\ state'["user@c.us"].pending_action_json = state["user@c.us"].pending_action_json
          /\ state'["user@c.us"].pending_question_json
                = state["user@c.us"].pending_question_json
          /\ rules' = rules]_vars

----------------------------------------------------------------------------
(* Title and location of a scheduling request, from the request to the     *)
(* create_event call.                                                      *)

SchedulingQuestions == {"start_time", "duration_minutes", "conflict_choice"}

(* the title and location the chat's open scheduling question or held      *)
(* calendar plan carries; a question without a location key has None       *)
CarriedBy(chat_state) ==
    IF \E q \in chat_state.pending_question_json : q.type \in SchedulingQuestions
    THEN {[title |-> q.title,
           location |-> IF "location" \in DOMAIN q THEN q.location ELSE {}] :
             q \in chat_state.pending_question_json}
    ELSE {[title |-> a.payload.title, location |-> a.payload.location] :
             a \in {x \in chat_state.pending_action_json : x.type = "calendar_create"}}

(* the title and the resolved location of the request a text makes *)
RequestedBy(text) ==
    {[title |-> r.title, location |-> r.location] :
        r \in LocationFromMemory(World, _fold_text(text), extract_tags(text),
                                 _parse_schedule_request(text, now))}

(* the step handled a message of the user that no asked request captured *)
UserStep ==
    /\ last' # last
    /\ last'.chat = "user@c.us"
    /\ last'.active = {}
    /\ ~last'.raised

(* C38: the title and the location of a scheduling request stay what they  *)
(* were on every step of the slot filling: a step that opens a question or *)
(* a plan takes them from the request, a step that answers a question      *)
(* keeps them, and create_event is called with those of the plan held.     *)
C38_TitleLocationCarried ==
    [][UserStep =>
          LET before == CarriedBy(state["user@c.us"])
              after == CarriedBy(state'["user@c.us"])
          IN /\ (before # {} /\ after # {}) => after = before
             /\ (before = {} /\ after # {}) => after = RequestedBy(last'.text)
             /\ \A i \in 1..Len(last'.tool_runs) :
                   last'.tool_runs[i].tool_name = "calendar.create_event" =>
                      [title |-> last'.tool_runs[i].input_json.title,
                       location |-> last'.tool_runs[i].input_json.location] \in before]_vars

----------------------------------------------------------------------------
(* The effectiveness ledger of the coaching profile.                       *)

(* C39: for every strategy the successes credited (done_after) never       *)
(* exceed the nudges sent.                                                 *)
C39_DoneAfterAtMostSent ==
    \A strategy \in Strategies :
        what_works[strategy].done_after <= what_works[strategy].sent

----------------------------------------------------------------------------
(* The worker's two jobs over two days: the tick every two minutes, the    *)
(* digest by cron at 21:00.  The clock visits 08:00, 21:00 and 21:30 of    *)
(* day 0 and 21:00 of day 1; the transport never fails and the chat is     *)
(* configured.                                                             *)

DigestHour == 1260

WorkerInstants == <<480, 1260, 1290, 2700>>

(* the digest job ran at the current instant *)
DigestRanToday == digest_out.set /\ digest_out.day = DayOf(now)

(* the interval job, on day 0 *)
WorkerTick ==
    /\ DayOf(now) = 0
    /\ \E raw \in CandidateLists(now) : run_proactive_tick(raw, 1..Len(raw))
    /\ UNCHANGED <<now, rules, env_chat, facts>>
    /\ UNCHANGED probe_vars
    /\ UNCHANGED chat_vars

(* the cron job: once, when the clock shows 21:00 *)
DigestJob ==
    /\ TimeOf(now) = DigestHour
    /\ ~DigestRanToday
    /\ \E habit_lines \in HabitLines :
          \E r \in {run_daily_digest(digests, digest_sends, events, requests, env_chat,
                                     facts, now, habit_lines, TRUE)} :
              /\ digests' = r.digests
              /\ digest_sends' = r.sends
              /\ digest_out' = r.out
    /\ UNCHANGED <<now, d_in, d_out, sup_in, sup_out, autonomy_out>>
    /\ UNCHANGED runtime_vars
    /\ UNCHANGED coach_vars
    /\ UNCHANGED tick_vars
    /\ UNCHANGED chat_vars

(* time passes; 21:00 does not pass before the cron job has run *)
WorkerAdvance ==
    /\ TimeOf(now) = DigestHour => DigestRanToday
    /\ \E i \in 1..(Len(WorkerInstants) - 1) :
          WorkerInstants[i] = now /\ now' = WorkerInstants[i + 1]
    /\ UNCHANGED tick_vars
    /\ UNCHANGED probe_vars
    /\ UNCHANGED chat_vars

InitWorker ==
    /\ now = WorkerInstants[1]
    /\ config = NoConfig
    /\ env_chat = "user@c.us"
    /\ TickVarsInit
    /\ ProbeVarsInit
    /\ ChatVarsInit

NextWorker == WorkerTick \/ DigestJob \/ WorkerAdvance

SpecWorker == InitWorker /\ [][NextWorker]_vars

(* BlockingScheduler keeps firing its jobs and the clock keeps running *)
SpecWorkerLive == SpecWorker /\ WF_vars(DigestJob) /\ WF_vars(WorkerAdvance)

(* the rows of proactive_events that are digested and not a habit's *)
DigestedRows ==
    {i \in 1..Len(events) :
        events[i].decision = "digested" /\ ~IsHabit(events[i].trigger_type)}

(* a delivered digest shows the event in a line, or counts it among the    *)
(* remaining ones                                                          *)
DeliveredIn(row, ev) ==
    /\ row.sent_at # NoTime
    /\ DayOf(ev.created_at) = row.day
    /\ \/ \E n \in 1..Len(row.content.lines) : row.content.lines[n] = ev.entity_id
       \/ row.content.remaining > 0

Delivered(k) ==
    \E i \in DigestedRows : \E d \in 1..Len(digests) :
        events[i].dedupe_key = k /\ DeliveredIn(digests[d], events[i])

Digested(k) == \E i \in DigestedRows : events[i].dedupe_key = k

(* C40: every event recorded as digested that is not a habit's is          *)
(* eventually part of a delivered digest.                                  *)
C40_DigestedEventuallyDelivered ==
    \A k \in AllKeys : Digested(k) ~> Delivered(k)

----------------------------------------------------------------------------
(* Asking requests: one prompt a day. *)

(* the request of chat c under key k is marked asked by this step *)
MarkedAsked(c, k) ==
    /\ requests'[c][k].status = "asked"
    /\ requests'[c][k].asked_at = now
    /\ requests[c][k].status # "asked"

(* a request on file that was asked on the local day of t *)
AskedOnDayOf(t) ==
    \E c \in Chats : \E k \in ReqKeys :
        /\ requests[c][k].asked_at # NoTime
        /\ DayOf(requests[c][k].asked_at) = DayOf(t)

(* C31: within one local day at most one request is marked asked: no      *)
(* message marks a request asked when a request, this one included, was    *)
(* already asked that day.                                                 *)
C31_OneAskPerDay ==
    [][\A c \in Chats : \A k \in ReqKeys : MarkedAsked(c, k) => ~AskedOnDayOf(now)]_vars

----------------------------------------------------------------------------
(* The assistant_requests table as rows.  Elsewhere the table is a         *)
(* function of chat and key; here requests is the sequence of its rows in  *)
(* insertion order, so that two rows for one need can be told apart from   *)
(* one.  A context is a set of at most one dict (None is {}); of a dict    *)
(* the rows keep chat_id and dismissed_until, each absent ({}) or present. *)

MaxRows == 3            \* rows the table may hold

RequestContext(chat_id) == [chat_id |-> chat_id, dismissed_until |-> {}]

(* str((context or {}).get("chat_id") or "unknown") *)
ContextChatId(context) ==
    IF \E c \in context : c.chat_id # {}
    THEN CHOOSE chat_id \in UNION {c.chat_id : c \in context} : TRUE
    ELSE "unknown"

(* f"{request_type}:{key}:{chat_id}"; no part drawn below holds a colon,   *)
(* so the joined text and the triple determine each other                 *)
build_dedupe_key(request_type, key, chat_id) == <<request_type, ":", key, ":", chat_id>>

AssistantRequest(request_type, key, prompt, context, priority, dedupe_key) ==
    [request_type |-> request_type, key |-> key, prompt |-> prompt,
     context |-> context, priority |-> priority, status |-> "open",
     dedupe_key |-> dedupe_key, asked_at |-> NoTime, answered_at |-> NoTime]

(* filter_by(dedupe_key=...).one_or_none(): the positions of the rows with *)
(* the key                                                                *)
ExistingRow_none(rows, dedupe_key) == {}

ExistingRow(rows, dedupe_key) == {i \in 1..Len(rows) : rows[i].dedupe_key = dedupe_key}

ReopenRow(row) ==
    [row EXCEPT !.status = "open", !.asked_at = NoTime, !.answered_at = NoTime]

DismissedUntilOf(row) ==
    IF row.context = {} THEN {}
    ELSE {v.t : v \in {x \in UNION {c.dismissed_until : c \in row.context} : x.ok}}

(* create_or_reopen_request on the rows.  A row's context is never None:   *)
(* the insert stores context or {}                                        *)
CreateOrReopenRow(rows, request_type, key, prompt, context, priority, t, reopen_if_answered) ==
    LET chat_id == ContextChatId(context)
        dedupe_key == build_dedupe_key(request_type, key, chat_id)
        existing == ExistingRow(rows, dedupe_key)
    IN IF existing # {}
       THEN LET i == CHOOSE j \in existing : TRUE
                updated == [rows[i] EXCEPT
                              !.prompt = prompt,
                              !.priority = priority,
                              !.context = IF context # {} THEN context ELSE @]
            IN [rows EXCEPT ![i] =
                  IF updated.status = "dismissed"
                  THEN IF \E until \in DismissedUntilOf(updated) : until > t
                       THEN updated
                       ELSE ReopenRow(updated)
                  ELSE IF updated.status = "answered" /\ reopen_if_answered
                  THEN ReopenRow(updated)
                  ELSE updated]
       ELSE Append(rows, AssistantRequest(request_type, key, prompt,
                                          IF context = {} THEN {[chat_id |-> {},
                                                                 dismissed_until |-> {}]}
                                          ELSE context,
                                          priority, dedupe_key))

(* NeedsDetector._close_request_if_exists on the rows *)
CloseRowIfExists(rows, request_type, key, chat_id, t) ==
    LET existing == ExistingRow(rows, build_dedupe_key(request_type, key, chat_id))
    IN IF existing = {} THEN rows
       ELSE LET i == CHOOSE j \in existing : TRUE
            IN IF rows[i].status \in {"open", "asked"}
               THEN [rows EXCEPT ![i].status = "answered", ![i].answered_at = t]
               ELSE rows

(* The rules of the detector: the need's type, key, prompt, priority and   *)
(* whether an answered request is reopened                                *)
DetectorRules ==
    <<[request_type |-> "authorize_calendar", key |-> "calendar_auth",
       prompt |-> "Para agendar en tu calendario necesito autorizacion.",
       priority |-> 90, reopen_if_answered |-> TRUE],
      [request_type |-> "missing_preference", key |-> "user_chat_id",
       prompt |-> "queres usar este chat como principal?",
       priority |-> 55, reopen_if_answered |-> FALSE]>>

(* the prompt of a call that is not the detector's *)
Prompts == {"otra pregunta"}

(* what one rule does in a scan: its need is not looked at, is met, or is  *)
(* missing                                                                *)
RuleOutcomes == {"skipped", "met", "missing"}

ApplyRule(rows, rule, outcome, chat_id, t) ==
    IF outcome = "skipped" THEN rows
    ELSE IF outcome = "met"
    THEN CloseRowIfExists(rows, rule.request_type, rule.key, chat_id, t)
    ELSE CreateOrReopenRow(rows, rule.request_type, rule.key, rule.prompt,
                           {RequestContext({chat_id})}, rule.priority, t,
                           rule.reopen_if_answered)

Call(rule, prompt, context, priority) ==
    [dedupe_key |-> build_dedupe_key(rule.request_type, rule.key, ContextChatId(context)),
     request_type |-> rule.request_type, key |-> rule.key,
     prompt |-> prompt, context |-> context, priority |-> priority]

(* NeedsDetector.scan for one chat: the calendar rule, then the chat rule *)
ScanRows ==
    \E outcomes \in [1..2 -> RuleOutcomes] :
       LET chat_id == "user@c.us"
           first == ApplyRule(requests, DetectorRules[1], outcomes[1], chat_id, now)
           second == ApplyRule(first, DetectorRules[2], outcomes[2], chat_id, now)
       IN /\ Len(second) <= MaxRows
          /\ requests' = second
          /\ last' = [chat |-> chat_id,
                      calls |-> {Call(DetectorRules[i], DetectorRules[i].prompt,
                                      {RequestContext({chat_id})},
                                      DetectorRules[i].priority) :
                                 i \in {j \in 1..2 : outcomes[j] = "missing"}}]
          /\ UNCHANGED <<state, has_token, calendar, duration_prompts, create_calls,
                         message_sends, inbound_count, habit_logs, threads>>
          /\ UNCHANGED <<now, tick_vars, probe_vars>>

(* a direct call of create_or_reopen_request, with any context *)
CreateCall ==
    \E call \in {<<1, {RequestContext({"user@c.us"})}>>,
                  <<2, {RequestContext({"user@c.us"})}>>, <<2, {}>>} :
    \E prompt \in Prompts : \E priority \in {30} : \E reopen_if_answered \in BOOLEAN :
       LET rule == DetectorRules[call[1]]
           context == call[2]
           after == CreateOrReopenRow(requests, rule.request_type, rule.key, prompt,
                                      context, priority, now, reopen_if_answered)
       IN /\ Len(after) <= MaxRows
          /\ requests' = after
          /\ last' = [chat |-> "user@c.us",
                      calls |-> {Call(rule, prompt, context, priority)}]
          /\ UNCHANGED <<state, has_token, calendar, duration_prompts, create_calls,
                         message_sends, inbound_count, habit_logs, threads>>
          /\ UNCHANGED <<now, tick_vars, probe_vars>>

(* mark_request_asked on an open row, mark_request_dismissed on an asked   *)
(* one (the user's 'omitir')                                              *)
MarkRow ==
    \E i \in 1..Len(requests) : \E suppress_days \in {SUPPRESS_DAYS} :
       /\ requests[i].status \in {"open", "asked"}
       /\ requests' =
             IF requests[i].status = "open"
             THEN [requests EXCEPT ![i].status = "asked", ![i].asked_at = now]
             ELSE [requests EXCEPT
                     ![i].status = "dismissed",
                     ![i].answered_at = now,
                     ![i].context =
                        {[c EXCEPT !.dismissed_until =
                             {isoformat(now + suppress_days * MinutesPerDay)}] : c \in @}]
       /\ last' = [chat |-> "user@c.us", calls |-> {}]
       /\ UNCHANGED <<state, has_token, calendar, duration_prompts, create_calls,
                      message_sends, inbound_count, habit_logs, threads>>
       /\ UNCHANGED <<now, tick_vars, probe_vars>>

(* the clock moves past the end of a suppression *)
SuppressionOver ==
    /\ now = Instants[2]
    /\ now' = now + (SUPPRESS_DAYS + 1) * MinutesPerDay
    /\ UNCHANGED <<tick_vars, probe_vars, chat_vars>>

InitRequestRows ==
    /\ now = Instants[2]
    /\ config = NoConfig
    /\ env_chat = NoChat
    /\ rules = <<>>
    /\ events = <<>>
    /\ send_attempts = [k \in AllKeys |-> 0]
    /\ habit_nudges = <<>>
    /\ what_works = [s \in Strategies |-> [sent |-> 0, done_after |-> 0]]
    /\ facts = [k \in FactKeys |-> NoFact]
    /\ tick_out = NoTick
    /\ ProbeVarsInit
    /\ state = [c \in Chats |-> NewState]
    /\ requests = <<>>
    /\ has_token = FALSE
    /\ calendar = {}
    /\ duration_prompts = [c \in Chats |-> 0]
    /\ create_calls = 0
    /\ message_sends = 0
    /\ inbound_count = 0
    /\ habit_logs = <<>>
    /\ threads = <<>>
    /\ last = NoLast

NextRequestRows == ScanRows \/ CreateCall \/ MarkRow \/ SuppressionOver

SpecRequestRows == InitRequestRows /\ [][NextRequestRows]_vars

RowsOf(rows, dedupe_key) == {i \in 1..Len(rows) : rows[i].dedupe_key = dedupe_key}

RowsOfNeed(rows, request_type, key, chat_id) ==
    {i \in 1..Len(rows) :
        /\ rows[i].request_type = request_type
        /\ rows[i].key = key
        /\ ContextChatId(rows[i].context) = chat_id}

(* the row of a call after the call: the only one of its need, holding the *)
(* call's prompt and priority, and its context unless that was None       *)
CallStored(rows, call) ==
    /\ Cardinality(RowsOf(rows, call.dedupe_key)) = 1
    /\ \A i \in RowsOf(rows, call.dedupe_key) :
          /\ rows[i].request_type = call.request_type
          /\ rows[i].key = call.key
          /\ rows[i].prompt = call.prompt
          /\ rows[i].priority = call.priority
          /\ call.context # {} => rows[i].context = call.context

(* a row that was there before the call is the same row after it, and an   *)
(* open or asked one keeps its status and the time it was asked           *)
CallKept(before, rows, call) ==
    \A i \in RowsOf(before, call.dedupe_key) :
       /\ RowsOf(rows, call.dedupe_key) = {i}
       /\ before[i].status \in {"open", "asked"} =>
             /\ rows[i].status = before[i].status
             /\ rows[i].asked_at = before[i].asked_at
             /\ rows[i].answered_at = before[i].answered_at

RepeatedDetection ==
    /\ last # NoLast
    /\ \E call \in last.calls : \E i \in 1..Len(requests) :
          /\ requests[i].dedupe_key = call.dedupe_key
          /\ requests[i].status = "asked"
          /\ requests[i].asked_at # NoTime

(* C30: after any sequence of detector scans and create_or_reopen_request  *)
(* calls the table holds at most one row per (request_type, key, chat_id); *)
(* a call for a need that already has a row updates that row's prompt,     *)
(* priority and context instead of inserting a second one, and leaves an   *)
(* open or asked request open or asked.                                   *)
C30_OneRowPerNeed ==
    [][/\ \A i \in 1..Len(requests') :
             RowsOfNeed(requests', requests'[i].request_type, requests'[i].key,
                        ContextChatId(requests'[i].context)) = {i}
       /\ last'.chat # NoChat =>
             /\ \A call \in last'.calls :
                   /\ CallStored(requests', call)
                   /\ CallKept(requests, requests', call)
             /\ Len(requests') = Len(requests)
                   + Cardinality({call.dedupe_key : call \in
                                     {c \in last'.calls : RowsOf(requests, c.dedupe_key) = {}}})]_vars

(* a need detected again while its request is asked: still one row, asked *)
C30_Witness ==
    /\ RepeatedDetection
    /\ Len(requests) >= 2

============================================================================
